---- MODULE Spec2Model ----
(***************************************************************************)
(* A model of the agent_ecology3 kernel: the scrip ledger and the mint     *)
(* auction, the invoke-depth discipline of the sandboxed executor, the     *)
(* rolling-window rate tracker and the simulation runner's task schedule.  *)
(* Each subsystem has its own specification over the shared variables.     *)
(***************************************************************************)
EXTENDS Integers, Sequences, FiniteSets, TLC

VARIABLES
    ledger,        \* Ledger.scrip: [order: insertion order of the dict, scrip: id -> balance]
    submissions,   \* MintAuction._submissions, in insertion order
    result,        \* what the last operation returned: [op, ok, code, message, mint, data],
                   \* or in its field raised the exception that left it
    stack,         \* the artifact executions active now, outermost first: [depth, route]
    event_number,  \* World.event_number
    invoke_result, \* what the last invoke call returned to its caller
    action_events, \* the 'action' events in the log
    now,           \* time.time(), in whole ticks
    bucket,        \* RateTracker._usage[resource][agent]: UsageRecords, oldest first
    rate_result,   \* what the last rate tracker call returned: [op, amount, ok]
    running,       \* SimulationRunner._running
    paused,        \* SimulationRunner._paused
    stop_requested, \* SimulationRunner._stop_requested
    pause_event,   \* SimulationRunner._pause_event is set
    pc,            \* where each task of the runner is: task -> location
    cur,           \* the task the event loop is executing, "None" between tasks
    iterations,    \* LoopRuntimeState.iterations of each loop
    consecutive_errors, \* LoopRuntimeState.consecutive_errors of each loop
    ticks,         \* calls of World.tick, each one auction update
    log,           \* the event log: simulation_started and simulation_stopped events so
                   \* far, the last event, the loops field of this run's simulation_stopped
    artifacts,     \* ArtifactStore.artifacts: id -> Artifact
    frozen_agents, \* World.frozen_agents
    llm_budget,    \* Ledger.resources[principal]["llm_budget"], in units of cost
    usage,         \* RateTracker._usage: resource -> principal -> UsageRecords
    llm_result,    \* what the last call_llm_as_syscall returned: [payer, ok, code]
    priced,        \* the artifact "svc" as _invoke reads it: [owner, invoke_price, charge_to]
    entries,       \* DelegationManager._entries_by_payer: payer -> charger -> DelegationEntry
    history,       \* DelegationManager._history: payer -> charger -> ChargeRecords
    charge_result, \* what the last call of the delegation manager on its own returned
    auction_started_at, \* MintAuction._auction_started_at: [set, at], unset until the first update
    issued,        \* submission ids MintAuction.submit has handed out
    flags,         \* Artifact.has_standing and has_loop of each artifact: id -> [has_standing, has_loop]
    checked,       \* what the last ContractEngine.check of a write returned: [target, state_updates]
    can_mint,      \* the ids of the artifacts whose capabilities list holds "can_mint"
    loop_running   \* LoopRuntimeState.running of each loop

economy_vars == <<ledger, submissions, result>>
invoke_vars == <<stack, event_number, invoke_result, action_events>>
rate_vars == <<now, bucket, rate_result>>
runner_vars == <<running, paused, stop_requested, pause_event, pc, cur, iterations,
                 consecutive_errors, ticks, log, frozen_agents, loop_running>>
store_vars == <<artifacts>>
llm_vars == <<llm_budget, usage, llm_result>>
charge_vars == <<priced, entries, history, charge_result>>
clock_vars == <<auction_started_at, issued>>
standing_vars == <<flags, checked, can_mint>>
vars == <<economy_vars, invoke_vars, rate_vars, runner_vars, store_vars, llm_vars,
          charge_vars, clock_vars, standing_vars>>

\* what an operation of one subsystem leaves alone
not_economy == <<invoke_vars, rate_vars, runner_vars, store_vars, llm_vars, charge_vars, clock_vars, standing_vars>>
not_invoke == <<economy_vars, rate_vars, runner_vars, store_vars, llm_vars, charge_vars, clock_vars, standing_vars>>
not_rate == <<economy_vars, invoke_vars, runner_vars, store_vars, llm_vars, charge_vars, clock_vars, standing_vars>>
not_runner == <<economy_vars, invoke_vars, rate_vars, store_vars, llm_vars, charge_vars, clock_vars, standing_vars>>
not_store == <<submissions, invoke_vars, rate_vars, runner_vars, llm_vars, charge_vars, clock_vars, standing_vars>>
not_llm == <<economy_vars, invoke_vars, bucket, rate_result, runner_vars, store_vars,
            charge_vars, clock_vars, standing_vars>>

(***************************************************************************)
(* Bounds of the model and configuration values.                           *)
(***************************************************************************)
StartScrip == 1         \* principals.starting_scrip, scaled down
MaxSubs == 2            \* pending submissions at once
MaxMinted == 1          \* scrip beyond the starting supply the model lets minting reach
MaxStack == 8           \* artifact executions the model lets nest
MaxEvents == 10         \* cap on World.event_number
max_invoke_depth == 6
RateLimit == 2          \* the resource's configured max_per_window
WindowTicks == 2        \* RateTracker.window_seconds, in ticks
MaxTime == 6            \* the clock stops here
MaxBucket == 3          \* usage records the model lets a bucket hold
MaxIter == 2            \* iterations after which a loop's sleep no longer ends
MaxTicks == 2           \* ticks after which the tick loop's sleep no longer ends
MaxRuns == 1            \* calls of run() that start a run
minimum_bid == 1
mint_ratio == 10

PrincipalIds == {"alpha_1", "alpha_2", "alpha_3"}
PrincipalSeq == <<"alpha_1", "alpha_2", "alpha_3">>
SystemIds == {"SYSTEM_KERNEL"}
AllIds == PrincipalIds \cup SystemIds
Amounts == {0 - 1, 0, 1, 2}
Prices == {0, 1, 2}
Minted == {0, 1}
Counts == {1, 2}        \* principals.count in the runs of Spec
Scores == {0, 15}

startswith_SYSTEM(pid) == pid \in SystemIds

Range(s) == {s[i] : i \in DOMAIN s}

RECURSIVE SumOver(_, _)
SumOver(f, S) ==
    IF S = {} THEN 0
    ELSE LET x == CHOOSE y \in S : TRUE IN f[x] + SumOver(f, S \ {x})

SumFn(f) == SumOver(f, DOMAIN f)

(***************************************************************************)
(* Ledger (world/ledger.py).  A ledger value L is [order, scrip].          *)
(***************************************************************************)
principal_exists(L, pid) == pid \in DOMAIN L.scrip

get_scrip(L, pid) == IF pid \in DOMAIN L.scrip THEN L.scrip[pid] ELSE 0

can_afford_nothing(L, pid, amount) == FALSE

can_afford_scrip(L, pid, amount) == get_scrip(L, pid) >= amount

ensure_principal(L, pid) ==
    IF pid \in DOMAIN L.scrip THEN L
    ELSE [order |-> Append(L.order, pid), scrip |-> L.scrip @@ (pid :> 0)]

credit_scrip(L, pid, amount) ==
    LET E == ensure_principal(L, pid)
    IN  [E EXCEPT !.scrip[pid] = @ + amount]

\* deduct_scrip returns (ok, ledger)
deduct_scrip_unchecked(L, pid, amount) ==
    IF amount < 0 THEN [ok |-> FALSE, L |-> L]
    ELSE LET E == ensure_principal(L, pid)
         IN  [ok |-> TRUE, L |-> [E EXCEPT !.scrip[pid] = @ - amount]]

deduct_scrip(L, pid, amount) ==
    IF amount < 0 THEN [ok |-> FALSE, L |-> L]
    ELSE IF ~can_afford_scrip(L, pid, amount) THEN [ok |-> FALSE, L |-> L]
    ELSE [ok |-> TRUE, L |-> [L EXCEPT !.scrip[pid] = @ - amount]]

transfer_scrip_credit_first(L, from_id, to_id, amount) ==
    IF amount <= 0 THEN [ok |-> FALSE, L |-> L]
    ELSE LET C == credit_scrip(L, to_id, amount)
             D == deduct_scrip(L, from_id, amount)
         IN  IF ~D.ok THEN [ok |-> FALSE, L |-> C] ELSE [ok |-> TRUE, L |-> credit_scrip(D.L, to_id, amount)]

transfer_scrip(L, from_id, to_id, amount) ==
    IF amount <= 0 THEN [ok |-> FALSE, L |-> L]
    ELSE LET D == deduct_scrip(L, from_id, amount)
         IN  IF ~D.ok THEN [ok |-> FALSE, L |-> L]
             ELSE [ok |-> TRUE, L |-> credit_scrip(D.L, to_id, amount)]

ubi_recipients(L, exclude) ==
    SelectSeq(L.order, LAMBDA pid : ~startswith_SYSTEM(pid) /\ pid # exclude)

ubi_share_floor_only(amount, n, idx) == amount \div n

\* share of the recipient at 0-based position idx among n recipients
ubi_share(amount, n, idx) ==
    (amount \div n) + (IF idx < amount % n THEN 1 ELSE 0)

RECURSIVE credit_all(_, _, _)
credit_all(L, rec, payout) ==
    IF rec = <<>> THEN L
    ELSE credit_all(IF Head(rec) \in DOMAIN payout
                        THEN credit_scrip(L, Head(rec), payout[Head(rec)])
                        ELSE L,
                    Tail(rec), payout)

\* distribute_ubi returns (payout, ledger)
distribute_ubi(L, amount, exclude) ==
    LET rec == ubi_recipients(L, exclude)
        n == Len(rec)
    IN  IF amount <= 0 \/ n = 0 THEN [payout |-> <<>>, L |-> L]
        ELSE LET paid == {i \in 1..n : ubi_share(amount, n, i - 1) > 0}
                 payout == [pid \in {rec[i] : i \in paid} |->
                              ubi_share(amount, n, (CHOOSE i \in paid : rec[i] = pid) - 1)]
             IN  [payout |-> payout, L |-> credit_all(L, rec, payout)]

(***************************************************************************)
(* Mint auction (world/mint.py).                                           *)
(***************************************************************************)
Max(a, b) == IF a >= b THEN a ELSE b

\* list.sort(key=bid, reverse=True) is stable: equal bids keep insertion order
RECURSIVE insert_desc(_, _)
insert_desc(sub, sorted) ==
    IF sorted = <<>> THEN <<sub>>
    ELSE IF Head(sorted).bid >= sub.bid THEN <<Head(sorted)>> \o insert_desc(sub, Tail(sorted))
    ELSE <<sub>> \o sorted

RECURSIVE sort_desc(_)
sort_desc(subs) ==
    IF subs = <<>> THEN <<>>
    ELSE insert_desc(subs[Len(subs)], sort_desc(SubSeq(subs, 1, Len(subs) - 1)))

\* a variant of the refunds that returns no bid
refund_none(L, subs) == L

RECURSIVE refund_all(_, _)
refund_all(L, subs) ==
    IF subs = <<>> THEN L
    ELSE refund_all(credit_scrip(L, Head(subs).principal_id, Head(subs).bid), Tail(subs))

NoMintResult ==
    [winner_id |-> "None", artifact_id |-> "None", winning_bid |-> 0, price_paid |-> 0,
     scrip_minted |-> 0, ubi_distributed |-> <<>>, error |-> "never resolved"]

second_price_first_price(sorted) == sorted[1].bid

second_price_of(sorted) == IF Len(sorted) > 1 THEN sorted[2].bid ELSE minimum_bid

\* MintAuction.submit without its test of the bid against minimum_bid
submit_check_no_minimum(L, principal_id, found, authorized, bid) ==
    IF ~found THEN "not found"
    ELSE IF ~can_afford_scrip(L, principal_id, bid) THEN "insufficient scrip"
    ELSE IF ~authorized THEN "not authorized"
    ELSE "ok"

\* MintAuction.submit: the reason it raises ValueError, or "ok".  found: the artifact
\* exists and is not deleted; authorized: the submitter is its owner, writer or principal
submit_check(L, principal_id, found, authorized, bid) ==
    IF ~found THEN "not found"
    ELSE IF bid < minimum_bid THEN "bid below minimum"
    ELSE IF ~can_afford_scrip(L, principal_id, bid) THEN "insufficient scrip"
    ELSE IF ~authorized THEN "not authorized"
    ELSE "ok"

\* MintAuction.resolve returns (result, ledger, submissions)
resolve(L, subs, score) ==
    IF subs = <<>>
    THEN [res |-> [NoMintResult EXCEPT !.error = "no submissions"], L |-> L, subs |-> subs]
    ELSE LET sorted == sort_desc(subs)
             winner == sorted[1]
             second_price == second_price_of(sorted)
             L1 == refund_all(L, Tail(sorted))
             refund == winner.bid - second_price
             L2 == IF refund > 0 THEN credit_scrip(L1, winner.principal_id, refund) ELSE L1
             minted == score \div Max(1, mint_ratio)
             L3 == IF minted > 0 THEN credit_scrip(L2, winner.principal_id, minted) ELSE L2
             U == distribute_ubi(L3, second_price, winner.principal_id)
         IN  [res |-> [winner_id |-> winner.principal_id, artifact_id |-> winner.artifact_id,
                       winning_bid |-> winner.bid, price_paid |-> second_price,
                       scrip_minted |-> minted, ubi_distributed |-> U.payout,
                       error |-> "None"],
              L |-> U.L, subs |-> <<>>]

(***************************************************************************)
(* Actions on the ledger (world/action_executor.py, world/executor.py).    *)
(***************************************************************************)
Res(op, ok, code) ==
    [op |-> op, ok |-> ok, code |-> code, message |-> "None", mint |-> NoMintResult,
     data |-> "None", raised |-> "None"]

RECURSIVE escrow(_)
escrow(subs) == IF subs = <<>> THEN 0 ELSE Head(subs).bid + escrow(Tail(subs))

supply(L, subs) == SumFn(L.scrip) + escrow(subs)

\* the scrip World._bootstrap_principals handed out
starting_supply(L) == StartScrip * Cardinality({pid \in DOMAIN L.scrip : ~startswith_SYSTEM(pid)})

\* the accounts a payment is sent to: an existing principal or the kernel's owner id
payees(L) == DOMAIN L.scrip \cup SystemIds

\* ActionExecutor._transfer returns (ok, error_code, ledger)
transfer_action(L, p, r, n) ==
    IF n <= 0 THEN [ok |-> FALSE, code |-> "invalid_argument", L |-> L]
    ELSE IF ~principal_exists(L, p) THEN [ok |-> FALSE, code |-> "not_found", L |-> L]
    ELSE IF ~principal_exists(L, r) THEN [ok |-> FALSE, code |-> "not_found", L |-> L]
    ELSE LET T == transfer_scrip(L, p, r, n)
         IN  IF ~T.ok THEN [ok |-> FALSE, code |-> "insufficient_funds", L |-> T.L]
             ELSE [ok |-> TRUE, code |-> "None", L |-> T.L]

Transfer(p, r, n) ==
    LET T == transfer_action(ledger, p, r, n)
    IN  /\ ledger' = T.L
        /\ result' = Res("transfer", T.ok, T.code)
        /\ UNCHANGED submissions
        /\ UNCHANGED not_economy

\* ActionExecutor._mint; has_artifact, has_cap: the minter's own artifact exists and
\* lists the "can_mint" capability
mint_action(L, has_artifact, has_cap, r, n) ==
    IF ~has_artifact THEN [ok |-> FALSE, code |-> "not_found", L |-> L]
    ELSE IF ~has_cap THEN [ok |-> FALSE, code |-> "not_authorized", L |-> L]
    ELSE IF ~principal_exists(L, r) THEN [ok |-> FALSE, code |-> "not_found", L |-> L]
    ELSE IF n <= 0 THEN [ok |-> FALSE, code |-> "invalid_argument", L |-> L]
    ELSE [ok |-> TRUE, code |-> "None", L |-> credit_scrip(L, r, n)]

MintAction(has_artifact, has_cap, r, n) ==
    LET M == mint_action(ledger, has_artifact, has_cap, r, n)
    IN  /\ M.ok => supply(ledger, submissions) + n <= starting_supply(ledger) + MaxMinted
        /\ ledger' = M.L
        /\ result' = Res("mint", M.ok, M.code)
        /\ UNCHANGED submissions
        /\ UNCHANGED not_economy

\* ActionExecutor._submit_to_mint -> MintAuction.submit; the artifact submitted is the
\* submitter's own profile artifact
SubmitToMint(p, found, authorized, bid) ==
    LET why == submit_check(ledger, p, found, authorized, bid)
    IN  /\ why = "ok" => Len(submissions) < MaxSubs
        /\ ledger' = IF why = "ok" THEN deduct_scrip(ledger, p, bid).L ELSE ledger
        /\ submissions' = IF why = "ok"
                            THEN Append(submissions, [principal_id |-> p, artifact_id |-> p, bid |-> bid])
                            ELSE submissions
        /\ result' = IF why = "ok" THEN Res("submit_to_mint", TRUE, "None")
                      ELSE [Res("submit_to_mint", FALSE, "invalid_submission")
                                EXCEPT !.message = why]
        /\ UNCHANGED not_economy

RemoveAt(s, i) == SubSeq(s, 1, i - 1) \o SubSeq(s, i + 1, Len(s))

\* kernel_mint "cancel" -> MintAuction.cancel; i stands for the submission id
Cancel(p, i) ==
    LET found == i \in DOMAIN submissions
        ok == found /\ submissions[i].principal_id = p
    IN  /\ ledger' = IF ok THEN credit_scrip(ledger, p, submissions[i].bid) ELSE ledger
        /\ submissions' = IF ok THEN RemoveAt(submissions, i) ELSE submissions
        /\ result' = Res("cancel", ok, IF ok THEN "None" ELSE "not_found")
        /\ UNCHANGED not_economy

\* MintAuction.update -> resolve, with the score the scorer gives the winning artifact
Resolve(score) ==
    LET R == resolve(ledger, submissions, score)
    IN  /\ R.res.scrip_minted > 0 =>
               supply(ledger, submissions) + R.res.scrip_minted <= starting_supply(ledger) + MaxMinted
        /\ submissions = <<>> => score = 0
        /\ ledger' = R.L
        /\ submissions' = R.subs
        /\ result' = [Res("resolve", TRUE, R.res.error) EXCEPT !.mint = R.res]
        /\ UNCHANGED not_economy

\* the payment in ActionExecutor._read
ReadPay(p, recipient, read_price) ==
    LET afford == can_afford_scrip(ledger, p, read_price)
        pays == read_price > 0 /\ afford /\ recipient # p
    IN  /\ ledger' = IF pays THEN transfer_scrip(ledger, p, recipient, read_price).L ELSE ledger
        /\ result' = Res("read_artifact", read_price > 0 => afford,
                         IF read_price > 0 /\ ~afford THEN "insufficient_funds" ELSE "None")
        /\ UNCHANGED submissions
        /\ UNCHANGED not_economy

\* the payment after a successful execution in ActionExecutor._invoke
InvokePay(payer, recipient, invoke_price) ==
    LET pays == invoke_price > 0 /\ recipient # payer
    IN  /\ ledger' = IF pays THEN transfer_scrip(ledger, payer, recipient, invoke_price).L ELSE ledger
        /\ result' = Res("invoke_artifact", TRUE, "None")
        /\ UNCHANGED submissions
        /\ UNCHANGED not_economy

\* pay(target, amount) injected into artifact code by SafeExecutor.execute_with_invoke
Pay(artifact_id, target, amount) ==
    LET T == IF amount <= 0 THEN [ok |-> FALSE, L |-> ledger]
             ELSE transfer_scrip(ledger, artifact_id, target, amount)
    IN  /\ ledger' = T.L
        /\ result' = Res("pay", T.ok, IF T.ok THEN "None" ELSE "error")
        /\ UNCHANGED submissions
        /\ UNCHANGED not_economy

\* World._bootstrap_principals for principals.count = count
bootstrap_ledger(count) ==
    [order |-> SubSeq(PrincipalSeq, 1, count),
     scrip |-> [pid \in {PrincipalSeq[i] : i \in 1..count} |-> StartScrip]]

\* no invoke in progress
InvokeIdle ==
    /\ stack = <<>>
    /\ event_number = 0
    /\ invoke_result = "None"
    /\ action_events = 0

\* a tracker nobody has used yet
RateIdle ==
    /\ now = 0
    /\ bucket = <<>>
    /\ rate_result = [op |-> "None", amount |-> 0, ok |-> TRUE]

Loops == {"alpha_1_loop", "alpha_2_loop"}
Tasks == Loops \cup {"run"}

NoLoops == [t \in Loops |-> 0]

\* SimulationRunner.__init__: nothing runs, the pause gate is open
RunnerIdle ==
    /\ running = FALSE
    /\ paused = FALSE
    /\ stop_requested = FALSE
    /\ pause_event = TRUE
    /\ pc = [t \in Tasks |-> "idle"]
    /\ cur = "None"
    /\ iterations = NoLoops
    /\ consecutive_errors = NoLoops
    /\ ticks = 0
    /\ log = [started |-> 0, stopped |-> 0, last |-> "None", loops |-> "None"]
    /\ frozen_agents = {}
    /\ loop_running = [t \in Loops |-> FALSE]

(***************************************************************************)
(* Artifacts (world/artifacts.py).  A string is a sequence of characters,  *)
(* a code text is named by what the kernel looks for in it, and a store is *)
(* a function from the ids it holds to Artifact records.                   *)
(***************************************************************************)
MaxLen == 3             \* characters of the longest content the model writes
CodeBytes == 2          \* bytes of a non-empty code text, scaled down
DiskQuota == 8          \* principals.starting_disk_quota_bytes, scaled down

Chars == {"a", "eacute"}    \* "eacute" is U+00E9, two bytes in UTF-8

Strings(n) == UNION {[1..k -> Chars] : k \in 0..n}

RECURSIVE utf8_len(_)
utf8_len(s) ==
    IF s = <<>> THEN 0
    ELSE (IF Head(s) = "eacute" THEN 2 ELSE 1) + utf8_len(Tail(s))

\* the empty text, a text that defines run(), one that defines check_permission(),
\* and one that defines none of the entry points
Codes == {"", "def run(", "def check_permission(", "junk"}

code_len(code) == IF code = "" THEN 0 ELSE CodeBytes

KERNEL_CONTRACT_FREEWARE == "kernel_contract_freeware"
KERNEL_CONTRACT_SELF_OWNED == "kernel_contract_self_owned"
KERNEL_CONTRACT_PRIVATE == "kernel_contract_private"
KERNEL_CONTRACT_PUBLIC == "kernel_contract_public"
KernelContracts == {KERNEL_CONTRACT_FREEWARE, KERNEL_CONTRACT_SELF_OWNED,
                    KERNEL_CONTRACT_PRIVATE, KERNEL_CONTRACT_PUBLIC}
default_for_new_artifact == KERNEL_CONTRACT_FREEWARE
default_when_missing == KERNEL_CONTRACT_FREEWARE

kernel_services == {"kernel_act", "kernel_delegation", "kernel_mint", "kernel_time"}
StorePrincipals == {"alpha_1", "alpha_2"}
loop_owner(loop) == IF loop = "alpha_1_loop" THEN "alpha_1" ELSE "alpha_2"

\* ArtifactStore.write for an id the store does not hold
Artifact(content, owner, executable, code, read_price, access_contract_id, metadata) ==
    [content |-> content, owner |-> owner, executable |-> executable, code |-> code,
     read_price |-> read_price, access_contract_id |-> access_contract_id,
     metadata |-> metadata, auth_state |-> [writer |-> owner, principal |-> owner],
     deleted |-> FALSE, kernel_protected |-> FALSE]

\* the texts the bootstrap writes, scaled down to one character each
BootContent == <<"a">>

\* World._bootstrap_principals, _bootstrap_kernel_services and
\* _bootstrap_loop_artifacts: a profile per principal, the kernel services
\* and a loop artifact per principal
bootstrap_artifacts ==
    [aid \in StorePrincipals \cup kernel_services \cup Loops |->
        IF aid \in StorePrincipals
        THEN Artifact(BootContent, aid, FALSE, "", 0, KERNEL_CONTRACT_SELF_OWNED, {})
        ELSE IF aid \in kernel_services
        THEN [Artifact(BootContent, "SYSTEM_KERNEL", FALSE, "", 0, KERNEL_CONTRACT_PRIVATE, {})
                EXCEPT !.kernel_protected = TRUE]
        ELSE [Artifact(BootContent, loop_owner(aid), TRUE, "def run(", 0,
                       KERNEL_CONTRACT_PRIVATE, {})
                EXCEPT !.kernel_protected = TRUE]]

\* the store as the bootstrap leaves it
StoreIdle == artifacts = bootstrap_artifacts

\* World._bootstrap_principals: every principal starts with the starting budget,
\* and nobody has used the rate tracker
StartBudget == 2
Resources == {"llm_calls", "llm_tokens", "cpu_seconds"}
LlmIdle ==
    /\ llm_budget = [pid \in StorePrincipals |-> StartBudget]
    /\ usage = [r \in Resources |-> [pid \in StorePrincipals |-> <<>>]]
    /\ llm_result = [payer |-> "None", ok |-> TRUE, code |-> "None"]

\* the priced artifact as alpha_2 wrote it, no delegation granted, no charge recorded
NoCap == [set |-> FALSE, v |-> 0]
NoExpiry == [kind |-> "None", at |-> 0]
NoEntry == [exists |-> FALSE, max_per_call |-> NoCap, max_per_window |-> NoCap,
            expires_at |-> NoExpiry]
ChargeIdle ==
    /\ priced = [owner |-> "alpha_2", invoke_price |-> 1, charge_to |-> "caller"]
    /\ entries = [payer \in PrincipalIds |-> [charger \in PrincipalIds |-> NoEntry]]
    /\ history = [payer \in PrincipalIds |-> [charger \in PrincipalIds |-> <<>>]]
    /\ charge_result = [op |-> "None", amount |-> 0, ok |-> TRUE, reason |-> "None",
                        raised |-> "None"]

\* MintAuction.__init__: no auction has started, no submission id is in use
ClockIdle ==
    /\ auction_started_at = [set |-> FALSE, at |-> 0]
    /\ issued = 0

\* World._bootstrap_principals and _bootstrap_loop_artifacts: a profile is
\* written with has_standing, a loop artifact with has_loop, which
\* ArtifactStore.write takes for standing as well; a kernel service with neither
bootstrap_flags ==
    [aid \in StorePrincipals \cup kernel_services \cup Loops |->
        [has_standing |-> aid \in StorePrincipals \cup Loops, has_loop |-> aid \in Loops]]

\* state_updates of a PermissionResult that carries none
NoUpdates == [k \in {} |-> "None"]

\* the flags as the bootstrap leaves them, no write checked yet, and can_mint in
\* no capabilities list: the bootstrap writes no capability but can_call_llm
StandingIdle ==
    /\ flags = bootstrap_flags
    /\ checked = [target |-> "None", state_updates |-> NoUpdates]
    /\ can_mint = {}

Init ==
    /\ \E count \in Counts : ledger = bootstrap_ledger(count)
    /\ submissions = <<>>
    /\ result = Res("init", TRUE, "None")
    /\ InvokeIdle
    /\ RateIdle
    /\ RunnerIdle
    /\ StoreIdle
    /\ LlmIdle
    /\ ChargeIdle
    /\ ClockIdle
    /\ StandingIdle

Next ==
    \/ \E p \in AllIds, r \in AllIds, n \in Amounts : Transfer(p, r, n)
    \/ \E a \in BOOLEAN, c \in BOOLEAN, r \in AllIds, n \in Minted : (c => a) /\ MintAction(a, c, r, n)
    \/ \E p \in AllIds, f \in BOOLEAN, a \in BOOLEAN, bid \in Prices : (a => f) /\ SubmitToMint(p, f, a, bid)
    \/ \E p \in AllIds, i \in 1..(MaxSubs + 1) : Cancel(p, i)
    \/ \E score \in Scores : Resolve(score)
    \/ \E p \in AllIds, r \in payees(ledger), n \in Minted : ReadPay(p, r, n)
    \/ \E p \in AllIds, r \in payees(ledger), n \in Minted : InvokePay(p, r, n)
    \/ \E p \in AllIds, r \in payees(ledger), n \in Amounts : Pay(p, r, n)

Spec == Init /\ [][Next]_vars

(***************************************************************************)
(* The auction on its own: bids, cancellations and resolutions among up to *)
(* three principals, with pay() moving scrip between rounds.               *)
(***************************************************************************)
InitAuction ==
    /\ \E count \in 1..Len(PrincipalSeq) : ledger = bootstrap_ledger(count)
    /\ submissions = <<>>
    /\ result = Res("init", TRUE, "None")
    /\ InvokeIdle
    /\ RateIdle
    /\ RunnerIdle
    /\ StoreIdle
    /\ LlmIdle
    /\ ChargeIdle
    /\ ClockIdle
    /\ StandingIdle

NextAuction ==
    \/ \E p \in AllIds, f \in BOOLEAN, a \in BOOLEAN, bid \in Prices : (a => f) /\ SubmitToMint(p, f, a, bid)
    \/ \E p \in AllIds, i \in 1..(MaxSubs + 1) : Cancel(p, i)
    \/ \E score \in Scores : Resolve(score)
    \/ \E p \in AllIds, r \in payees(ledger), n \in {1, 2} : Pay(p, r, n)

SpecAuction == InitAuction /\ [][NextAuction]_vars

(***************************************************************************)
(* Nested invocation (world/executor.py, world/world.py,                   *)
(* world/action_executor.py).  Artifact code runs synchronously: only the  *)
(* innermost execution, the last frame of stack, is running.               *)
(***************************************************************************)
Frame(depth, route) == [depth |-> depth, route |-> route]

top == stack[Len(stack)]

\* the injected invoke refuses before it reaches the world
invoke_refused_above_max(current_depth, max_depth) == current_depth > max_depth

invoke_refused(current_depth, max_depth) == current_depth >= max_depth

\* a principal's invoke_artifact action on an executable artifact: execute_action_data
\* builds a fresh intent, execute_intent counts the event, _invoke reads depth 0
TopInvoke ==
    /\ stack = <<>>
    /\ event_number < MaxEvents
    /\ event_number' = event_number + 1
    /\ stack' = <<Frame(0, "action")>>
    /\ invoke_result' = "None"
    /\ UNCHANGED action_events
    /\ UNCHANGED not_invoke

\* the running code calls invoke(target); runs: the target exists, is executable, the
\* caller is allowed and can afford it
InjectedInvoke(runs) ==
    /\ stack # <<>>
    /\ IF invoke_refused(top.depth, max_invoke_depth)
         THEN /\ invoke_result' = "max invoke depth exceeded"
              /\ UNCHANGED <<stack, event_number>>
         ELSE /\ event_number < MaxEvents
              /\ event_number' = event_number + 1
              /\ IF runs
                   THEN /\ Len(stack) < MaxStack
                        /\ stack' = Append(stack, Frame(top.depth + 1, "invoke"))
                        /\ invoke_result' = "None"
                   ELSE /\ stack' = stack
                        /\ invoke_result' = "error"
    /\ UNCHANGED action_events
    /\ UNCHANGED not_invoke

\* the running code calls invoke("kernel_act", {invoke_artifact target}): the service
\* call is a nested invoke, and kernel_act_run hands the payload to execute_action_data
KernelActInvoke(runs) ==
    /\ stack # <<>>
    /\ IF invoke_refused(top.depth, max_invoke_depth)
         THEN /\ invoke_result' = "max invoke depth exceeded"
              /\ UNCHANGED <<stack, event_number, action_events>>
         ELSE /\ event_number + 1 < MaxEvents
              /\ event_number' = event_number + 2
              /\ IF runs
                   THEN /\ Len(stack) < MaxStack
                        /\ stack' = Append(stack, Frame(0, "kernel_act"))
                        /\ invoke_result' = "None"
                        /\ UNCHANGED action_events
                   ELSE /\ stack' = stack
                        /\ invoke_result' = "error"
                        /\ action_events' = action_events + 1
    /\ UNCHANGED not_invoke

\* the running code calls kernel_actions.invoke_artifact(target) or run_action
KernelActionsInvoke(runs) ==
    /\ stack # <<>>
    /\ event_number < MaxEvents
    /\ event_number' = event_number + 1
    /\ IF runs
         THEN /\ Len(stack) < MaxStack
              /\ stack' = Append(stack, Frame(0, "kernel_actions"))
              /\ invoke_result' = "None"
              /\ UNCHANGED action_events
         ELSE /\ stack' = stack
              /\ invoke_result' = "error"
              /\ action_events' = action_events + 1
    /\ UNCHANGED not_invoke

\* the call went through ActionExecutor.execute, which logs the 'action' event
\* when the handler returns; World.invoke_from_executor calls _invoke itself
logged(route) == route # "invoke"

\* the running code returns or raises; its caller gets the result
Return(success) ==
    /\ stack # <<>>
    /\ stack' = SubSeq(stack, 1, Len(stack) - 1)
    /\ invoke_result' = IF success THEN "success" ELSE "error"
    /\ action_events' = IF logged(top.route) THEN action_events + 1 ELSE action_events
    /\ UNCHANGED event_number
    /\ UNCHANGED not_invoke

\* the ledger and the auction at rest
EconomyIdle ==
    /\ ledger = bootstrap_ledger(1)
    /\ submissions = <<>>
    /\ result = Res("init", TRUE, "None")

InitInvoke ==
    /\ EconomyIdle
    /\ InvokeIdle
    /\ RateIdle
    /\ RunnerIdle
    /\ StoreIdle
    /\ LlmIdle
    /\ ChargeIdle
    /\ ClockIdle
    /\ StandingIdle

NextInvoke ==
    \/ TopInvoke
    \/ \E runs \in BOOLEAN : InjectedInvoke(runs)
    \/ \E runs \in BOOLEAN : KernelActInvoke(runs)
    \/ \E runs \in BOOLEAN : KernelActionsInvoke(runs)
    \/ \E success \in BOOLEAN : Return(success)

SpecInvoke == InitInvoke /\ [][NextInvoke]_vars

(***************************************************************************)
(* Rolling-window rate tracker (world/rates.py), for one principal and one *)
(* resource with a configured limit.                                       *)
(***************************************************************************)
Record(timestamp, amount) == [timestamp |-> timestamp, amount |-> amount]

\* _prune: drop records from the left while they are older than the window
RECURSIVE prune(_, _)
prune(b, t) ==
    IF b # <<>> /\ Head(b).timestamp < t - WindowTicks THEN prune(Tail(b), t) ELSE b

RECURSIVE sum_amounts(_)
sum_amounts(b) == IF b = <<>> THEN 0 ELSE Head(b).amount + sum_amounts(Tail(b))

get_usage(b, t) == Max(0, sum_amounts(prune(b, t)))

get_remaining(b, t) == Max(0, RateLimit - get_usage(b, t))

has_capacity_within_limit(b, t, amount) == amount >= 0 /\ RateLimit >= amount

has_capacity(b, t, amount) == amount >= 0 /\ get_remaining(b, t) >= amount

\* consume returns (ok, bucket)
consume(b, t, amount) ==
    IF amount < 0 THEN [ok |-> FALSE, b |-> b]
    ELSE IF amount = 0 THEN [ok |-> TRUE, b |-> b]
    ELSE IF ~has_capacity(b, t, amount) THEN [ok |-> FALSE, b |-> prune(b, t)]
    ELSE [ok |-> TRUE, b |-> Append(prune(b, t), Record(t, amount))]

Consume(amount) ==
    LET C == consume(bucket, now, amount)
    IN  /\ Len(C.b) <= MaxBucket
        /\ bucket' = C.b
        /\ rate_result' = [op |-> "consume", amount |-> amount, ok |-> C.ok]
        /\ UNCHANGED now
        /\ UNCHANGED not_rate

\* refund appends a negative delta and does not prune
Refund(amount) ==
    /\ amount > 0 => Len(bucket) < MaxBucket
    /\ bucket' = IF amount <= 0 THEN bucket ELSE Append(bucket, Record(now, 0 - amount))
    /\ rate_result' = [op |-> "refund", amount |-> amount, ok |-> amount > 0]
    /\ UNCHANGED now
    /\ UNCHANGED not_rate

\* get_remaining, asked by a capacity check: it prunes as a side effect
GetRemaining ==
    /\ bucket' = prune(bucket, now)
    /\ rate_result' = [op |-> "get_remaining", amount |-> get_remaining(bucket, now), ok |-> TRUE]
    /\ UNCHANGED now
    /\ UNCHANGED not_rate

\* the clock advances
Tick ==
    /\ now < MaxTime
    /\ now' = now + 1
    /\ UNCHANGED <<bucket, rate_result>>
    /\ UNCHANGED not_rate

InitRate ==
    /\ EconomyIdle
    /\ InvokeIdle
    /\ RateIdle
    /\ RunnerIdle
    /\ StoreIdle
    /\ LlmIdle
    /\ ChargeIdle
    /\ ClockIdle
    /\ StandingIdle

NextRate ==
    \/ \E amount \in {0 - 1, 0, 1, 2} : Consume(amount)
    \/ \E amount \in {0, 1} : Refund(amount)
    \/ GetRemaining
    \/ Tick

SpecRate == InitRate /\ [][NextRate]_vars

(***************************************************************************)
(* Simulation runner (simulation/runner.py).  The tasks are the run()      *)
(* coroutine, which hosts the tick loop, and one task per loop artifact,   *)
(* all on one asyncio event loop: a task runs from the point where it was  *)
(* resumed to its next await, and pause(), resume() and stop() are called  *)
(* by other callbacks of the same event loop, between two tasks.           *)
(***************************************************************************)
\* locations at which a task is suspended in an await that does not return at once
suspends_in_action(loc) == loc \in {"gate", "sleep", "gather", "act_exec"}

suspends(loc) == loc \in {"gate", "sleep", "gather"}

\* locations at which a task has finished or has not been created
ended(loc) == loc \in {"idle", "done", "cancelled", "returned"}

\* locations the event loop has scheduled for resumption
runnable(loc) == loc \in {"created", "ready", "woken", "cancelling"}

\* locations inside execute_action_data or World.tick: part of the work is done
InAction == {"act_exec", "act_end", "tick_end"}

\* a task whose turn it is: the running task, or a scheduled task when none is running
may_step(t, loc) == pc[t] = loc /\ (cur = t \/ (cur = "None" /\ runnable(loc)))

\* the task keeps the event loop unless it has reached an await or has ended
next_cur(t, loc) == IF suspends(loc) \/ ended(loc) THEN "None" ELSE t

\* asyncio.Event.set(): every task waiting on the event is scheduled
release(locs) == [t \in DOMAIN locs |-> IF locs[t] = "gate" THEN "woken" ELSE locs[t]]

\* Task.cancel() in the finally block of run(): CancelledError at the task's await
cancel(locs) ==
    [t \in DOMAIN locs |->
        IF t \in Loops /\ ~ended(locs[t]) THEN "cancelling" ELSE locs[t]]

\* where stop() leaves the pause event
stop_event_unchanged(event) == event

stop_event(event) == TRUE

pause ==
    /\ cur = "None"
    /\ running
    /\ paused' = TRUE
    /\ pause_event' = FALSE
    /\ UNCHANGED <<running, stop_requested, pc, cur, iterations, consecutive_errors, ticks, log, frozen_agents, loop_running>>
    /\ UNCHANGED not_runner

resume ==
    /\ cur = "None"
    /\ running
    /\ paused' = FALSE
    /\ pause_event' = TRUE
    /\ pc' = release(pc)
    /\ UNCHANGED <<running, stop_requested, cur, iterations, consecutive_errors, ticks, log, frozen_agents, loop_running>>
    /\ UNCHANGED not_runner

stop ==
    /\ cur = "None"
    /\ running
    /\ stop_requested' = TRUE
    /\ pause_event' = stop_event(pause_event)
    /\ pc' = IF pause_event' THEN release(pc) ELSE pc
    /\ UNCHANGED <<running, paused, cur, iterations, consecutive_errors, ticks, log, frozen_agents, loop_running>>
    /\ UNCHANGED not_runner

\* run() up to the first test of its while loop
RunStart ==
    /\ cur = "None"
    /\ ~running
    /\ pc["run"] \in {"idle", "returned"}
    /\ log.started < MaxRuns
    /\ running' = TRUE
    /\ paused' = FALSE
    /\ stop_requested' = FALSE
    /\ pause_event' = TRUE
    /\ iterations' = NoLoops
    /\ consecutive_errors' = NoLoops
    /\ loop_running' = [t \in Loops |-> FALSE]
    /\ pc' = [t \in Tasks |-> IF t = "run" THEN "check" ELSE "created"]
    /\ cur' = "run"
    /\ log' = [started |-> log.started + 1, stopped |-> log.stopped,
               last |-> "simulation_started", loops |-> "None"]
    /\ ticks' = 0
    /\ UNCHANGED frozen_agents
    /\ UNCHANGED not_runner

\* the loop task from the top of its while loop to the start of its action
loop_top(t, artifact_ok, budget_ok) ==
    IF stop_requested THEN "done"
    ELSE IF ~pause_event THEN "gate"
    ELSE IF ~artifact_ok THEN "done"
    ELSE IF ~budget_ok THEN "sleep"
    ELSE "act_exec"

\* the loop task after the pause gate has let it through
loop_after_gate(t, artifact_ok, budget_ok) ==
    IF stop_requested THEN "done"
    ELSE IF ~artifact_ok THEN "done"
    ELSE IF ~budget_ok THEN "sleep"
    ELSE "act_exec"

\* World.freeze_agent when the budget test sends the task to sleep,
\* World.unfreeze_agent when it lets the task into its action
after_budget_test(frozen, t, loc) ==
    IF loc = "sleep" THEN frozen \cup {loop_owner(t)}
    ELSE IF loc = "act_exec" THEN frozen \ {loop_owner(t)}
    ELSE frozen

\* LoopRuntimeState.running once the task has moved to loc: set when the task starts,
\* cleared where _run_artifact_loop returns, left alone by a CancelledError
state_running(was, loc) ==
    IF loc = "done" THEN FALSE ELSE IF loc = "cancelled" THEN was ELSE TRUE

LoopMove(t, loc) ==
    /\ pc' = [pc EXCEPT ![t] = loc]
    /\ cur' = next_cur(t, loc)
    /\ loop_running' = [loop_running EXCEPT ![t] = state_running(@, loc)]
    /\ UNCHANGED <<running, paused, stop_requested, pause_event, ticks>>
    /\ UNCHANGED not_runner

\* a created task, or one whose sleep has ended, runs to the gate or into its action
LoopResume(t, artifact_ok, budget_ok) ==
    /\ \/ may_step(t, "created")
       \/ may_step(t, "ready")
    /\ LoopMove(t, loop_top(t, artifact_ok, budget_ok))
    /\ frozen_agents' = after_budget_test(frozen_agents, t, loop_top(t, artifact_ok, budget_ok))
    /\ UNCHANGED <<iterations, consecutive_errors, log>>

\* a task released from the gate runs on, whatever the gate is by now
LoopWoken(t, artifact_ok, budget_ok) ==
    /\ may_step(t, "woken")
    /\ LoopMove(t, loop_after_gate(t, artifact_ok, budget_ok))
    /\ frozen_agents' =
          after_budget_test(frozen_agents, t, loop_after_gate(t, artifact_ok, budget_ok))
    /\ UNCHANGED <<iterations, consecutive_errors, log>>

\* execute_action_data: the sandbox run with its nested invokes and payments
LoopExec(t) ==
    /\ may_step(t, "act_exec")
    /\ LoopMove(t, "act_end")
    /\ UNCHANGED <<iterations, consecutive_errors, log, frozen_agents>>

\* the action's log entry, then the bookkeeping of the iteration and the sleep
LoopEnd(t, success) ==
    /\ may_step(t, "act_end")
    /\ iterations' = [iterations EXCEPT ![t] = @ + 1]
    /\ consecutive_errors' = [consecutive_errors EXCEPT ![t] = IF success THEN 0 ELSE @ + 1]
    /\ log' = [log EXCEPT !.last = "action"]
    /\ LoopMove(t, "sleep")
    /\ UNCHANGED frozen_agents

\* CancelledError is raised at the await the task was suspended in
LoopCancelled(t) ==
    /\ may_step(t, "cancelling")
    /\ LoopMove(t, "cancelled")
    /\ UNCHANGED <<iterations, consecutive_errors, log, frozen_agents>>

\* asyncio.sleep returns: the task is scheduled
Timer(t) ==
    /\ cur = "None"
    /\ pc[t] = "sleep"
    /\ \/ stop_requested
       \/ t \in Loops /\ iterations[t] < MaxIter
       \/ t = "run" /\ ticks < MaxTicks
    /\ pc' = [pc EXCEPT ![t] = "ready"]
    /\ UNCHANGED <<running, paused, stop_requested, pause_event, cur, iterations,
                   consecutive_errors, ticks, log, frozen_agents, loop_running>>
    /\ UNCHANGED not_runner

RunMove(loc) ==
    /\ pc' = [pc EXCEPT !["run"] = loc]
    /\ cur' = next_cur("run", loc)
    /\ UNCHANGED <<running, paused, stop_requested, pause_event, iterations, consecutive_errors, frozen_agents, loop_running>>
    /\ UNCHANGED not_runner

\* the tick loop from the top of its while loop to the gate
TickResume ==
    /\ may_step("run", "ready")
    /\ RunMove(IF stop_requested THEN "finally"
               ELSE IF ~pause_event THEN "gate" ELSE "check")
    /\ UNCHANGED <<ticks, log>>

\* the tick loop released from the gate
TickWoken ==
    /\ may_step("run", "woken")
    /\ RunMove("check")
    /\ UNCHANGED <<ticks, log>>

\* the runtime and duration limits, then World.tick begins its auction update
TickCheck(limit) ==
    /\ may_step("run", "check")
    /\ RunMove(IF limit = "None" THEN "tick_end" ELSE "finally")
    /\ ticks' = IF limit = "None" THEN ticks + 1 ELSE ticks
    /\ log' = IF limit = "max_runtime"
              THEN [log EXCEPT !.last = "simulation_runtime_limit_reached"]
              ELSE log

\* the auction update completes, then the tick loop sleeps
TickEnd(resolved) ==
    /\ may_step("run", "tick_end")
    /\ RunMove("sleep")
    /\ log' = IF resolved THEN [log EXCEPT !.last = "mint_auction"] ELSE log
    /\ UNCHANGED ticks

\* the finally block of run() up to its gather
Finally ==
    /\ may_step("run", "finally")
    /\ stop_requested' = TRUE
    /\ pause_event' = TRUE
    /\ pc' = [cancel(pc) EXCEPT !["run"] = "gather"]
    /\ cur' = "None"
    /\ UNCHANGED <<running, paused, iterations, consecutive_errors, ticks, log, frozen_agents, loop_running>>
    /\ UNCHANGED not_runner

loops_summary == [t \in Loops |-> [iterations |-> iterations[t],
                                   consecutive_errors |-> consecutive_errors[t]]]

\* gather returns once every loop task has ended; the summary and the last event
Gathered ==
    /\ cur = "None"
    /\ pc["run"] = "gather"
    /\ \A t \in Loops : ended(pc[t])
    /\ running' = FALSE
    /\ log' = [log EXCEPT !.stopped = @ + 1, !.last = "simulation_stopped",
                          !.loops = loops_summary]
    /\ pc' = [pc EXCEPT !["run"] = "returned"]
    /\ UNCHANGED <<paused, stop_requested, pause_event, cur, iterations,
                   consecutive_errors, ticks, frozen_agents, loop_running>>
    /\ UNCHANGED not_runner

\* the steps of one task
TaskStep(t) ==
    \/ /\ t \in Loops
       /\ \/ \E a, b \in BOOLEAN : LoopResume(t, a, b) \/ LoopWoken(t, a, b)
          \/ LoopExec(t)
          \/ \E success \in BOOLEAN : LoopEnd(t, success)
          \/ LoopCancelled(t)
    \/ /\ t = "run"
       /\ \/ TickResume
          \/ TickWoken
          \/ \E limit \in {"None", "max_runtime", "duration"} : TickCheck(limit)
          \/ \E resolved \in BOOLEAN : TickEnd(resolved)
          \/ Finally
          \/ Gathered

InitRunner ==
    /\ EconomyIdle
    /\ InvokeIdle
    /\ RateIdle
    /\ RunnerIdle
    /\ StoreIdle
    /\ LlmIdle
    /\ ChargeIdle
    /\ ClockIdle
    /\ StandingIdle

NextRunner ==
    \/ RunStart
    \/ pause
    \/ resume
    \/ stop
    \/ \E t \in Loops, a, b \in BOOLEAN : LoopResume(t, a, b)
    \/ \E t \in Loops, a, b \in BOOLEAN : LoopWoken(t, a, b)
    \/ \E t \in Loops : LoopExec(t)
    \/ \E t \in Loops, success \in BOOLEAN : LoopEnd(t, success)
    \/ \E t \in Loops : LoopCancelled(t)
    \/ \E t \in Tasks : Timer(t)
    \/ TickResume
    \/ TickWoken
    \/ \E limit \in {"None", "max_runtime", "duration"} : TickCheck(limit)
    \/ \E resolved \in BOOLEAN : TickEnd(resolved)
    \/ Finally
    \/ Gathered

SpecRunner == InitRunner /\ [][NextRunner]_vars

\* the event loop runs every scheduled task and every timer comes due
SpecRunnerFair ==
    /\ InitRunner
    /\ [][NextRunner]_vars
    /\ \A t \in Tasks : WF_vars(TaskStep(t)) /\ WF_vars(Timer(t))

(***************************************************************************)
(* Properties of the ledger and the auction.                               *)
(***************************************************************************)

\* C1: in every reachable state every principal's scrip balance is >= 0, whatever
\* sequence of transfers, mints, bids, cancellations, resolutions, read and invoke
\* price payments and pay() calls led there.
C1_ScripNonNegative == \A pid \in DOMAIN ledger.scrip : ledger.scrip[pid] >= 0

\* a payment has just emptied an account to exactly zero
C1_Witness ==
    /\ result.op \in {"transfer", "pay", "submit_to_mint"}
    /\ result.ok
    /\ \E pid \in PrincipalIds : pid \in DOMAIN ledger.scrip /\ ledger.scrip[pid] = 0

\* the conditions under which the transfer action reports failure
transfer_fails(L, a, b, n) ==
    \/ n <= 0
    \/ a \notin DOMAIN L.scrip
    \/ b \notin DOMAIN L.scrip
    \/ get_scrip(L, a) < n

\* C2 (amended): a transfer of n from a to b fails exactly when n <= 0, a or b is not a
\* ledger principal, or balance(a) < n, and then the ledger is unchanged; when it
\* succeeds with a # b, balance(a) has dropped by n, balance(b) has risen by n and no
\* other balance moved; when it succeeds with a = b, the balance is unchanged.
C2_TransferAllOrNothing ==
    [][result'.op = "transfer" =>
       \A a \in AllIds, b \in AllIds, n \in Amounts :
          Transfer(a, b, n) =>
              /\ result'.ok = ~transfer_fails(ledger, a, b, n)
              /\ transfer_fails(ledger, a, b, n) => ledger' = ledger
              /\ (~transfer_fails(ledger, a, b, n) /\ a # b) =>
                     /\ ledger'.order = ledger.order
                     /\ ledger'.scrip = [ledger.scrip EXCEPT ![a] = @ - n, ![b] = @ + n]
              /\ (~transfer_fails(ledger, a, b, n) /\ a = b) => ledger' = ledger]_vars

\* a transfer has just succeeded and left its sender with nothing
C2_Witness ==
    /\ result.op = "transfer" /\ result.ok
    /\ \E pid \in DOMAIN ledger.scrip : ledger.scrip[pid] = 0
    /\ \E pid \in DOMAIN ledger.scrip : ledger.scrip[pid] > StartScrip

\* C2 as written: every successful transfer lowers balance(a) by exactly n and raises
\* balance(b) by exactly n.  A transfer to oneself succeeds and refutes it.
C2_AsWritten ==
    [][result'.op = "transfer" =>
       \A a \in AllIds, b \in AllIds, n \in Amounts :
          Transfer(a, b, n) =>
              /\ result'.ok = ~transfer_fails(ledger, a, b, n)
              /\ ~result'.ok => ledger' = ledger
              /\ result'.ok => /\ ledger'.scrip[a] = ledger.scrip[a] - n
                               /\ ledger'.scrip[b] = ledger.scrip[b] + n]_vars

bids(subs) == {subs[i].bid : i \in DOMAIN subs}

MaxOf(S) == CHOOSE x \in S : \A y \in S : y <= x

RECURSIVE escrow_of(_, _)
escrow_of(subs, pid) ==
    IF subs = <<>> THEN 0
    ELSE (IF Head(subs).principal_id = pid THEN Head(subs).bid ELSE 0) + escrow_of(Tail(subs), pid)

share_of(M, pid) == IF pid \in DOMAIN M.ubi_distributed THEN M.ubi_distributed[pid] ELSE 0

\* C3: a resolution with at least one pending submission takes a highest bid as the
\* winner; price_paid is the second-highest bid, or minimum_bid when there is exactly
\* one submission; every escrowed bid is credited back whole except the winning one,
\* which is credited back less price_paid, so that each balance changes by the
\* escrow returned, less price_paid for the winner, plus what the round minted and
\* distributed; no submission stays pending.
C3_SecondPrice ==
    [][(result'.op = "resolve" /\ submissions # <<>>) =>
              LET M == result'.mint
              IN  /\ \E i \in DOMAIN submissions :
                        /\ submissions[i].principal_id = M.winner_id
                        /\ submissions[i].bid = M.winning_bid
                        /\ M.winning_bid = MaxOf(bids(submissions))
                        /\ M.price_paid =
                               IF Len(submissions) = 1 THEN minimum_bid
                               ELSE MaxOf({submissions[j].bid : j \in DOMAIN submissions \ {i}})
                  /\ M.price_paid <= M.winning_bid
                  /\ \A pid \in DOMAIN ledger'.scrip :
                        ledger'.scrip[pid] =
                            get_scrip(ledger, pid) + escrow_of(submissions, pid)
                            - (IF pid = M.winner_id THEN M.price_paid ELSE 0)
                            + (IF pid = M.winner_id THEN M.scrip_minted ELSE 0)
                            + share_of(M, pid)
                  /\ submissions' = <<>>]_vars

\* a round with at least two bids has resolved: the price is above minimum_bid
C3_Witness ==
    /\ result.op = "resolve"
    /\ result.mint.winner_id # "None"
    /\ result.mint.price_paid > minimum_bid

\* the principals a round's price is shared among
eligible(L, winner) == {pid \in DOMAIN L.scrip : ~startswith_SYSTEM(pid) /\ pid # winner}

\* C4 (amended): after a resolution with a winner, if the ledger holds a principal other
\* than the winner and the SYSTEM accounts, the ubi_distributed map names only such
\* principals, its shares differ by at most one and sum to exactly price_paid; if it
\* holds none, the map is empty and price_paid is credited to nobody.
C4_UbiSumsToPrice ==
    (result.op = "resolve" /\ result.mint.winner_id # "None") =>
        LET M == result.mint
            rec == eligible(ledger, M.winner_id)
        IN  IF rec = {} THEN DOMAIN M.ubi_distributed = {}
            ELSE /\ DOMAIN M.ubi_distributed \subseteq rec
                 /\ SumFn(M.ubi_distributed) = M.price_paid
                 /\ \A x \in rec, y \in rec : share_of(M, x) - share_of(M, y) <= 1

\* a price of one has been shared between two principals: one gets it, one gets nothing
C4_Witness ==
    /\ result.op = "resolve" /\ result.mint.winner_id # "None"
    /\ result.mint.price_paid = 1
    /\ Cardinality(eligible(ledger, result.mint.winner_id)) = 2
    /\ Cardinality(DOMAIN result.mint.ubi_distributed) = 1

\* C4 as written: after every resolution with a winner the ubi_distributed map sums to
\* price_paid, for every number of principals.  A winner that is the only principal
\* refutes it: nobody is credited and the price leaves circulation.
C4_AsWritten ==
    (result.op = "resolve" /\ result.mint.winner_id # "None") =>
        SumFn(result.mint.ubi_distributed) = result.mint.price_paid

(***************************************************************************)
(* Properties of nested invocation.                                        *)
(***************************************************************************)

\* C5: when the running code is at a depth equal to max_invoke_depth and calls
\* invoke(target), for an artifact or for the kernel_act service, the call returns the
\* depth error, no execution is started and neither the event counter, the ledger nor
\* the auction changes.
C5_RefusedAtMaxDepth ==
    [][\A runs \in BOOLEAN :
          ((InjectedInvoke(runs) \/ KernelActInvoke(runs))
              /\ stack # <<>> /\ stack[Len(stack)].depth = max_invoke_depth) =>
                 /\ invoke_result' = "max invoke depth exceeded"
                 /\ stack' = stack
                 /\ event_number' = event_number
                 /\ UNCHANGED not_invoke]_vars

\* code at the maximum depth has just had an invoke refused
C5_Witness ==
    /\ stack # <<>>
    /\ stack[Len(stack)].depth = max_invoke_depth
    /\ invoke_result = "max invoke depth exceeded"

\* C6 as written: every nested execution runs one level deeper than the execution that
\* started it, whatever the route, so at most max_invoke_depth + 1 executions are
\* active at once.
C6_DepthGrowsByOne ==
    /\ \A i \in 2..Len(stack) : stack[i].depth = stack[i - 1].depth + 1
    /\ Len(stack) <= max_invoke_depth + 1

(***************************************************************************)
(* Properties of the rate tracker.                                         *)
(***************************************************************************)

\* every consumption still on record is older than age ticks / at least age ticks old
consumption_older_than(age) ==
    \A i \in DOMAIN bucket : bucket[i].amount > 0 => now - bucket[i].timestamp > age

consumption_at_least(age) ==
    \A i \in DOMAIN bucket : bucket[i].amount > 0 => now - bucket[i].timestamp >= age

\* once the usage on record in the window has reached the limit, consume of one unit
\* returns false and appends no record
refused_at_limit ==
    [][(Consume(1) /\ get_usage(bucket, now) >= RateLimit) =>
          /\ ~rate_result'.ok
          /\ bucket' = prune(bucket, now)]_vars

\* C8 (amended): once the sum of the usage deltas in the window (consumptions less
\* refunds) has reached the limit L, consume of 1 unit returns false and records
\* nothing; and once more than window_seconds have passed since the last consumption,
\* the remaining capacity is L again.  A consumption exactly window_seconds old still
\* counts.
C8_LimitAndRecovery ==
    /\ refused_at_limit
    /\ [](consumption_older_than(WindowTicks) => get_remaining(bucket, now) = RateLimit)

\* a full window was refused a unit and has since expired, its records not yet pruned
C8_Witness ==
    /\ \E i \in DOMAIN bucket : bucket[i].amount = RateLimit
    /\ consumption_older_than(WindowTicks)
    /\ rate_result = [op |-> "consume", amount |-> 1, ok |-> FALSE]

\* C8 as written: once window_seconds have passed since the last consumption, the
\* remaining capacity is L again.  It is not when exactly window_seconds have passed.
C8_AsWritten ==
    /\ refused_at_limit
    /\ [](consumption_at_least(WindowTicks) => get_remaining(bucket, now) = RateLimit)

(***************************************************************************)
(* Properties of the simulation runner.                                    *)
(***************************************************************************)

\* the state the kernel and the runner keep about the work done so far
work_done == <<iterations, consecutive_errors, ticks, log>>

\* C7: tasks interleave only at their suspension points: while a task is inside its
\* action (a loop iteration's execute_action_data or a tick's auction update) it is
\* the running task, no other task moves, pause(), resume() and stop() do not run,
\* and whatever changes of the recorded work is changed by a step of that task.
C7_RunToCompletion ==
    [][\A t \in Tasks :
          pc[t] \in InAction =>
              /\ cur = t
              /\ \A u \in Tasks \ {t} : pc'[u] = pc[u]
              /\ UNCHANGED <<paused, stop_requested, pause_event>>
              /\ work_done' # work_done => pc'[t] # pc[t]]_vars

\* C7 witness: a loop task is inside its action while the sleep of another task has
\* ended, so that the other task is scheduled and waits for its turn
C7_Witness ==
    \E t \in Loops, u \in Tasks : t # u /\ pc[t] \in InAction /\ pc[u] = "ready"

\* C9: while the runner is paused (pause() was called and resume() has not been
\* called since) no loop's iteration count increases and no tick is performed.
C9_PausedHalts ==
    [][(running /\ paused /\ running') =>
          (iterations' = iterations /\ ticks' = ticks)]_vars

\* C10: a run has logged simulation_started exactly once more than simulation_stopped
\* while it is running and equally often once it has returned; when it has returned
\* every task has ended and simulation_stopped is the last event and carries every
\* loop's iteration and consecutive-error counts; and once stop is requested during
\* a run, paused or not, the run returns.
C10_StopEndsRun ==
    /\ [](log.started = log.stopped + (IF running THEN 1 ELSE 0))
    /\ []((~running /\ log.started > 0) =>
              /\ \A t \in Tasks : ended(pc[t])
              /\ log.last = "simulation_stopped"
              /\ log.loops = loops_summary)
    /\ (running /\ stop_requested) ~> (~running /\ pc["run"] = "returned")

\* C10 witness: a run that was paused when it was stopped has returned, with the
\* iterations its loops made in the summary of its last event
C10_Witness ==
    /\ ~running
    /\ paused
    /\ pc["run"] = "returned"
    /\ log.stopped = 1
    /\ \E t \in Loops : log.loops[t].iterations > 0 /\ log.loops[t].consecutive_errors > 0

(***************************************************************************)
(* Properties of the actions' error handling.                              *)
(***************************************************************************)

RECURSIVE usage_over(_, _, _)
usage_over(A, owner, S) ==
    IF S = {} THEN 0
    ELSE LET aid == CHOOSE x \in S : TRUE
             own == IF A[aid].deleted \/ A[aid].owner # owner THEN 0
                    ELSE utf8_len(A[aid].content) + code_len(A[aid].code)
         IN  own + usage_over(A, owner, S \ {aid})

get_owner_usage(A, owner) == usage_over(A, owner, DOMAIN A)

get_disk_quota(pid) == DiskQuota

get_available_disk(A, pid) ==
    LET used == get_owner_usage(A, pid)
        quota == get_disk_quota(pid)
    IN  IF quota - used > 0 THEN quota - used ELSE 0

quota_never_exceeded(A, pid, size_delta) == FALSE

\* the quota test of ActionExecutor._write and _edit
quota_exceeded(A, pid, size_delta) ==
    size_delta > 0 /\ get_available_disk(A, pid) < size_delta

\* str.startswith
startswith(s, sub) == Len(sub) <= Len(s) /\ SubSeq(s, 1, Len(sub)) = sub

\* the number of positions of s at which sub begins
RECURSIVE positions(_, _)
positions(s, sub) ==
    IF Len(sub) > Len(s) THEN 0
    ELSE (IF startswith(s, sub) THEN 1 ELSE 0)
         + (IF s = <<>> THEN 0 ELSE positions(Tail(s), sub))

\* str.count: occurrences that do not overlap, scanning from the left
RECURSIVE count(_, _)
count(s, sub) ==
    IF sub = <<>> THEN Len(s) + 1
    ELSE IF Len(sub) > Len(s) THEN 0
    ELSE IF startswith(s, sub) THEN 1 + count(SubSeq(s, Len(sub) + 1, Len(s)), sub)
    ELSE count(Tail(s), sub)

\* str.replace(old, new, 1): the leftmost occurrence replaced
RECURSIVE replace(_, _, _)
replace(s, old, new) ==
    IF startswith(s, old) THEN new \o SubSeq(s, Len(old) + 1, Len(s))
    ELSE IF s = <<>> THEN s
    ELSE <<Head(s)>> \o replace(Tail(s), old, new)

\* ArtifactStore.edit_artifact for an artifact the store holds live: (error, content)
edit_artifact(content, old_string, new_string) ==
    LET hits == count(content, old_string)
        updated == replace(content, old_string, new_string)
    IN  IF hits = 0 THEN [error |-> "not_found_in_content", content |-> content]
        ELSE IF hits > 1 THEN [error |-> "not_unique", content |-> content]
        ELSE IF updated = content THEN [error |-> "no_change", content |-> content]
        ELSE [error |-> "None", content |-> updated]

\* SafeExecutor.validate_code
validate_code(code) == code \in {"def run(", "def check_permission("}

\* check_permission of the kernel contracts
kernel_permission(contract, caller, action, target, state) ==
    CASE contract = KERNEL_CONTRACT_FREEWARE ->
            action \in {"read", "invoke"} \/ caller = state.writer
      [] contract = KERNEL_CONTRACT_SELF_OWNED ->
            caller = target \/ caller = state.principal
      [] contract = KERNEL_CONTRACT_PRIVATE -> caller = state.principal
      [] OTHER -> TRUE

\* PermissionResult.scrip_recipient of an allowed kernel check, "None" when unset
scrip_recipient(contract, state) ==
    CASE contract = KERNEL_CONTRACT_FREEWARE -> state.writer
      [] contract = KERNEL_CONTRACT_SELF_OWNED -> state.principal
      [] contract = KERNEL_CONTRACT_PRIVATE -> state.principal
      [] OTHER -> "None"

\* ContractEngine._resolve_contract: a kernel contract, the code of a contract
\* artifact ("custom"), or the default
resolve_contract(A, contract_id) ==
    IF contract_id \in KernelContracts THEN contract_id
    ELSE IF /\ contract_id \in DOMAIN A
            /\ A[contract_id].executable
            /\ A[contract_id].code = "def check_permission("
    THEN "custom"
    ELSE default_when_missing

\* what running a contract artifact's check_permission can come to
Verdicts == {"allow", "deny", "ValueError", "TimeoutError"}

\* ContractEngine.check: "allow", "deny", or the exception that leaves it;
\* verdict is what the contract artifact's code does when it is the contract
check(A, caller, action, aid, verdict) ==
    LET contract == resolve_contract(A, A[aid].access_contract_id)
    IN  IF contract = "custom" THEN verdict
        ELSE IF kernel_permission(contract, caller, action, aid, A[aid].auth_state)
        THEN "allow" ELSE "deny"

\* perm.scrip_recipient or artifact.owner
recipient_of(A, aid) ==
    LET contract == resolve_contract(A, A[aid].access_contract_id)
        r == IF contract = "custom" THEN "None" ELSE scrip_recipient(contract, A[aid].auth_state)
    IN  IF r = "None" THEN A[aid].owner ELSE r

\* a variant of missing that takes a deleted artifact for a present one
missing_only_absent(A, aid) == aid \notin DOMAIN A

\* "artifact is None or artifact.deleted" of _read, _edit, _invoke, _update_metadata
missing(A, aid) == aid \notin DOMAIN A \/ A[aid].deleted

\* an exception leaves the handler
Raised(op, exc) == [Res(op, FALSE, "None") EXCEPT !.raised = exc]

(***************************************************************************)
(* The handlers of the artifact actions (world/action_executor.py).        *)
(***************************************************************************)
\* ActionExecutor._write over the store A: the result and the store it leaves.
\* intent is [artifact_id, content, executable, code, read_price,
\* access_contract_id, metadata], access_contract_id "None" when unset
write_action(A, p, intent, verdict) ==
    LET aid == intent.artifact_id
        exists == aid \in DOMAIN A
        existing == A[aid]
        perm == IF exists THEN check(A, p, "write", aid, verdict) ELSE "allow"
        access_contract_id ==
            IF ~exists /\ intent.access_contract_id = "None"
            THEN default_for_new_artifact ELSE intent.access_contract_id
        new_size == utf8_len(intent.content) + code_len(intent.code)
        old_size == IF exists THEN utf8_len(existing.content) + code_len(existing.code) ELSE 0
        size_delta == new_size - old_size
        written ==
            IF ~exists
            THEN Artifact(intent.content, p, intent.executable, intent.code,
                          intent.read_price, access_contract_id, intent.metadata)
            ELSE [existing EXCEPT
                    !.content = intent.content,
                    !.executable = intent.executable,
                    !.code = intent.code,
                    !.read_price = intent.read_price,
                    !.metadata = IF intent.metadata # {} THEN intent.metadata ELSE @,
                    !.access_contract_id =
                        IF access_contract_id # "None" THEN access_contract_id ELSE @,
                    !.auth_state.writer = existing.owner]
        refused(code) == [result |-> Res("write_artifact", FALSE, code), artifacts |-> A]
    IN  IF exists /\ existing.deleted THEN refused("None")
        ELSE IF exists /\ existing.kernel_protected THEN refused("not_authorized")
        ELSE IF perm \notin {"allow", "deny"}
        THEN [result |-> Raised("write_artifact", perm), artifacts |-> A]
        ELSE IF perm = "deny" THEN refused("not_authorized")
        ELSE IF intent.executable /\ ~validate_code(intent.code) THEN refused("invalid_code")
        ELSE IF quota_exceeded(A, p, size_delta) THEN refused("quota_exceeded")
        ELSE [result |-> [Res("write_artifact", TRUE, "None") EXCEPT
                            !.data = [artifact_id |-> aid, size_bytes |-> new_size,
                                      was_update |-> exists]],
              artifacts |-> IF exists THEN [A EXCEPT ![aid] = written]
                            ELSE A @@ (aid :> written)]

WriteArtifact(p, intent, verdict) ==
    /\ \E W \in {write_action(artifacts, p, intent, verdict)} :
          /\ artifacts' = W.artifacts
          /\ result' = W.result
    /\ UNCHANGED ledger
    /\ UNCHANGED not_store

\* ActionExecutor._read
ReadArtifact(p, aid, verdict) ==
    LET artifact == artifacts[aid]
        perm == check(artifacts, p, "read", aid, verdict)
        read_price == artifact.read_price
        recipient == recipient_of(artifacts, aid)
        refused(code) ==
            /\ result' = Res("read_artifact", FALSE, code)
            /\ UNCHANGED ledger
    IN  /\ IF missing(artifacts, aid) THEN refused("not_found")
           ELSE IF perm \notin {"allow", "deny"}
           THEN result' = Raised("read_artifact", perm) /\ UNCHANGED ledger
           ELSE IF perm = "deny" THEN refused("not_authorized")
           ELSE IF read_price > 0 /\ ~can_afford_scrip(ledger, p, read_price)
           THEN refused("insufficient_funds")
           ELSE /\ ledger' = IF read_price > 0 /\ recipient # p
                             THEN transfer_scrip(ledger, p, recipient, read_price).L
                             ELSE ledger
                /\ result' = [Res("read_artifact", TRUE, "None") EXCEPT
                                !.data = [content |-> artifact.content,
                                          read_price_paid |-> read_price]]
        /\ UNCHANGED artifacts
        /\ UNCHANGED not_store

\* ActionExecutor._edit
EditArtifact(p, aid, old_string, new_string, verdict) ==
    LET artifact == artifacts[aid]
        perm == check(artifacts, p, "edit", aid, verdict)
        size_delta == utf8_len(new_string) - utf8_len(old_string)
        edited == edit_artifact(artifact.content, old_string, new_string)
        refused(code) ==
            /\ result' = Res("edit_artifact", FALSE, code)
            /\ UNCHANGED artifacts
    IN  /\ IF missing(artifacts, aid) THEN refused("not_found")
           ELSE IF artifact.kernel_protected THEN refused("not_authorized")
           ELSE IF perm \notin {"allow", "deny"}
           THEN result' = Raised("edit_artifact", perm) /\ UNCHANGED artifacts
           ELSE IF perm = "deny" THEN refused("not_authorized")
           ELSE IF quota_exceeded(artifacts, p, size_delta) THEN refused("quota_exceeded")
           ELSE IF edited.error # "None" THEN refused(edited.error)
           ELSE /\ artifacts' = [artifacts EXCEPT ![aid].content = edited.content]
                /\ result' = [Res("edit_artifact", TRUE, "None") EXCEPT
                                !.data = [size_delta |-> size_delta]]
        /\ UNCHANGED ledger
        /\ UNCHANGED not_store

\* ActionExecutor._delete
DeleteArtifact(p, aid, verdict) ==
    LET artifact == artifacts[aid]
        perm == check(artifacts, p, "delete", aid, verdict)
        refused(code) ==
            /\ result' = Res("delete_artifact", FALSE, code)
            /\ UNCHANGED artifacts
    IN  /\ IF aid \notin DOMAIN artifacts THEN refused("not_found")
           ELSE IF artifact.kernel_protected \/ aid \in kernel_services
           THEN refused("not_authorized")
           ELSE IF artifact.deleted THEN refused("not_found")
           ELSE IF perm \notin {"allow", "deny"}
           THEN result' = Raised("delete_artifact", perm) /\ UNCHANGED artifacts
           ELSE IF perm = "deny" THEN refused("not_authorized")
           ELSE /\ artifacts' = [artifacts EXCEPT ![aid].deleted = TRUE]
                /\ result' = Res("delete_artifact", TRUE, "None")
        /\ UNCHANGED ledger
        /\ UNCHANGED not_store

\* ActionExecutor._update_metadata; value "None" removes the key
UpdateMetadata(p, aid, key, value, verdict) ==
    LET artifact == artifacts[aid]
        perm == check(artifacts, p, "write", aid, verdict)
        others == {kv \in artifact.metadata : kv[1] # key}
        refused(code) ==
            /\ result' = Res("update_metadata", FALSE, code)
            /\ UNCHANGED artifacts
    IN  /\ IF missing(artifacts, aid) THEN refused("not_found")
           ELSE IF perm \notin {"allow", "deny"}
           THEN result' = Raised("update_metadata", perm) /\ UNCHANGED artifacts
           ELSE IF perm = "deny" THEN refused("not_authorized")
           ELSE /\ artifacts' = [artifacts EXCEPT ![aid].metadata =
                                    IF value = "None" THEN others
                                    ELSE others \cup {<<key, value>>}]
                /\ result' = Res("update_metadata", TRUE, "None")
        /\ UNCHANGED ledger
        /\ UNCHANGED not_store

\* what running an artifact's code can come to: it returns, or an exception
\* leaves it
Outcomes == {"return", "Exception", "TimeoutError", "SystemExit"}

\* SafeExecutor.execute_with_invoke, and the try around a kernel service's
\* method: what the caller gets for an outcome of the code
caught(outcome) == outcome \in {"Exception", "TimeoutError"}

\* ActionExecutor._invoke of method run, for an artifact without invoke price
InvokeArtifact(p, aid, verdict, outcome) ==
    LET artifact == artifacts[aid]
        perm == check(artifacts, p, "invoke", aid, verdict)
        refused(code) == result' = Res("invoke_artifact", FALSE, code)
        ran ==
            IF outcome = "return" THEN result' = Res("invoke_artifact", TRUE, "None")
            ELSE IF caught(outcome) THEN refused("runtime_error")
            ELSE result' = Raised("invoke_artifact", outcome)
    IN  /\ IF aid \in kernel_services THEN ran
           ELSE IF missing(artifacts, aid) THEN refused("not_found")
           ELSE IF ~artifact.executable THEN refused("invalid_type")
           ELSE IF perm \notin {"allow", "deny"}
           THEN result' = Raised("invoke_artifact", perm)
           ELSE IF perm = "deny" THEN refused("not_authorized")
           ELSE IF ~validate_code(artifact.code) THEN refused("runtime_error")
           ELSE ran
        /\ UNCHANGED <<artifacts, ledger>>
        /\ UNCHANGED not_store

\* what the code behind aid can come to: a kernel service is the kernel's own code
outcomes_of(aid) == IF aid \in kernel_services THEN {"return", "Exception"} ELSE Outcomes

TargetIds == {"alpha_1_loop", "kernel_mint", "doc", "gate"}
MetaKeys == {"tag"}
MetaValues == {"None", "x"}

\* a write_artifact intent for a text artifact
text_intent(aid, content, read_price, access_contract_id) ==
    [artifact_id |-> aid, content |-> content, executable |-> FALSE, code |-> "",
     read_price |-> read_price, access_contract_id |-> access_contract_id, metadata |-> {}]

\* a write_artifact intent for an executable artifact
code_intent(aid, code) ==
    [artifact_id |-> aid, content |-> <<>>, executable |-> TRUE, code |-> code,
     read_price |-> 0, access_contract_id |-> "None", metadata |-> {}]

\* what the contract of aid can come to: a kernel contract runs no agent code
verdicts_of(A, aid) ==
    IF aid \in DOMAIN A /\ resolve_contract(A, A[aid].access_contract_id) = "custom"
    THEN Verdicts ELSE {"allow"}

(***************************************************************************)
(* The store under all its actions: two principals write a document, maybe *)
(* under the contract artifact that the first of them writes, and aim      *)
(* every action at it and at two kernel artifacts.                         *)
(***************************************************************************)
\* the contents of the documents: one, MaxLen and MaxLen + 2 bytes
DocContents ==
    {c \in Strings(MaxLen) :
        \/ c = <<"a">>
        \/ Len(c) = MaxLen /\ \A i \in DOMAIN c : c[i] = "a"
        \/ Len(c) = MaxLen /\ \A i \in DOMAIN c : c[i] = "eacute" <=> i \in {1, MaxLen}}

\* <<principal, intent>>
StoreWrites ==
    {<<p, text_intent("doc", c, 0, acid)>> :
        p \in StorePrincipals, c \in DocContents, acid \in {"None", "gate"}}
    \cup
    {<<p, text_intent(aid, <<"a", "a">>, 0, "None")>> :
        p \in StorePrincipals, aid \in {"alpha_1_loop", "kernel_mint"}}
    \cup
    {<<"alpha_1", code_intent("gate", code)>> :
        code \in {"def check_permission(", "def run(", "junk"}}

InitStore ==
    /\ ledger = bootstrap_ledger(Cardinality(StorePrincipals))
    /\ submissions = <<>>
    /\ result = Res("init", TRUE, "None")
    /\ InvokeIdle
    /\ RateIdle
    /\ RunnerIdle
    /\ StoreIdle
    /\ LlmIdle
    /\ ChargeIdle
    /\ ClockIdle
    /\ StandingIdle

NextStore ==
    \/ \E w \in StoreWrites :
          \E v \in verdicts_of(artifacts, w[2].artifact_id) : WriteArtifact(w[1], w[2], v)
    \/ \E p \in StorePrincipals, aid \in TargetIds :
          \E v \in verdicts_of(artifacts, aid) : ReadArtifact(p, aid, v)
    \/ \E p \in StorePrincipals, aid \in TargetIds \ {"gate"} :
          \E v \in verdicts_of(artifacts, aid) :
             EditArtifact(p, aid, <<"a">>, <<"eacute">>, v)
    \/ \E p \in StorePrincipals, aid \in TargetIds \ {"gate"} :
          \E v \in verdicts_of(artifacts, aid) : DeleteArtifact(p, aid, v)
    \/ \E p \in StorePrincipals, aid \in TargetIds \ {"gate"}, key \in MetaKeys,
          value \in MetaValues :
          \E v \in verdicts_of(artifacts, aid) : UpdateMetadata(p, aid, key, value, v)
    \/ \E p \in StorePrincipals, aid \in TargetIds :
          \E v \in verdicts_of(artifacts, aid), outcome \in outcomes_of(aid) :
             InvokeArtifact(p, aid, v, outcome)

SpecStore == InitStore /\ [][NextStore]_vars

Edits == {e \in Strings(MaxLen - 1) \X Strings(1) : e[1] # e[2]}

NextEdit ==
    \/ \E p \in StorePrincipals, c \in Strings(MaxLen) :
          WriteArtifact(p, text_intent("doc", c, 0, "None"), "allow")
    \/ \E p \in StorePrincipals, e \in Edits : EditArtifact(p, "doc", e[1], e[2], "allow")

SpecEdit == InitStore /\ [][NextEdit]_vars

\* C13: an edit_artifact that the target's state, its contract and the
\* quota admit replaces the target string only when it occurs exactly once
\* in the content; when it occurs at no position, or at more than one, the
\* edit fails, with not_found_in_content or with not_unique, and the
\* content is unchanged.
C13_ExactlyOnce ==
    [][result'.op = "edit_artifact" =>
         \A p \in StorePrincipals, e \in Edits :
            LET old == e[1]
                new == e[2]
                content == artifacts["doc"].content
                occurrences == positions(content, old)
                admitted ==
                    /\ "doc" \in DOMAIN artifacts
                    /\ ~artifacts["doc"].deleted
                    /\ check(artifacts, p, "edit", "doc", "allow") = "allow"
                    /\ ~quota_exceeded(artifacts, p, utf8_len(new) - utf8_len(old))
            IN  (admitted /\ EditArtifact(p, "doc", old, new, "allow")) =>
                   IF occurrences = 1
                   THEN /\ result'.ok
                        /\ artifacts'["doc"].content = replace(content, old, new)
                   ELSE /\ ~result'.ok
                        /\ artifacts'["doc"].content = content
                        /\ result'.code = IF occurrences = 0 THEN "not_found_in_content"
                                          ELSE "not_unique"]_vars

(***************************************************************************)
(* Writing and reading: the principals write documents with or without a   *)
(* read price, maybe under the contract artifact that one of them writes,  *)
(* and read them.                                                          *)
(***************************************************************************)
\* <<principal, intent>>
ReadWrites ==
    {<<p, text_intent("doc", c, price, acid)>> :
        p \in StorePrincipals, c \in {<<"a">>, <<"a", "eacute">>}, price \in {0, 1},
        acid \in {"None", "gate"}}
    \cup {<<"alpha_2", text_intent("note", <<"a">>, 1, "None")>>,
          <<"alpha_2", code_intent("gate", "def check_permission(")>>}

NextRead ==
    \/ \E w \in ReadWrites :
          \E v \in verdicts_of(artifacts, w[2].artifact_id) : WriteArtifact(w[1], w[2], v)
    \/ \E p \in StorePrincipals, aid \in {"doc", "note", "gate"} :
          \E v \in verdicts_of(artifacts, aid) : ReadArtifact(p, aid, v)

SpecRead == InitStore /\ [][NextRead]_vars

\* the last action created an artifact
created == result.op = "write_artifact" /\ result.ok /\ ~result.data.was_update

\* C14: a successful write_artifact of content c to a new id by p leaves
\* the artifact with content c and owner p; a read_artifact of it by p
\* that follows succeeds and returns content c, provided that the
\* artifact's contract allows the read (every kernel contract does, a
\* contract artifact decides for itself) and that p can afford the read
\* price; when no read price was set, read_price_paid is 0 and the read
\* leaves p's balance as it was.
C14_WriteThenRead ==
    /\ [][result'.op = "write_artifact" =>
            \A w \in ReadWrites, v \in Verdicts :
               LET aid == w[2].artifact_id
               IN  (aid \notin DOMAIN artifacts /\ WriteArtifact(w[1], w[2], v) /\ result'.ok) =>
                      /\ artifacts'[aid].content = w[2].content
                      /\ artifacts'[aid].owner = w[1]
                      /\ ~result'.data.was_update]_vars
    /\ [][(created /\ result'.op = "read_artifact") =>
            LET aid == result.data.artifact_id
                p == artifacts[aid].owner
                read_price == artifacts[aid].read_price
            IN  \A v \in Verdicts :
                   (/\ ReadArtifact(p, aid, v)
                    /\ check(artifacts, p, "read", aid, v) = "allow"
                    /\ get_scrip(ledger, p) >= read_price) =>
                      /\ result'.ok
                      /\ result'.data.content = artifacts[aid].content
                      /\ read_price = 0 =>
                           /\ result'.data.read_price_paid = 0
                           /\ get_scrip(ledger', p) = get_scrip(ledger, p)]_vars

\* the read of a new document without read price, by its writer
C14_Witness ==
    /\ result.op = "read_artifact"
    /\ result.ok
    /\ result.data.read_price_paid = 0
    /\ result.data.content = <<"a", "eacute">>
    /\ "doc" \in DOMAIN artifacts
    /\ artifacts["doc"].access_contract_id = "gate"

\* C14 as the specification states it: the read that follows the write
\* succeeds and returns content c, whatever the contract and the price.
C14_AsWritten ==
    [][(created /\ result'.op = "read_artifact") =>
          LET aid == result.data.artifact_id
              p == artifacts[aid].owner
          IN  \A v \in Verdicts :
                 ReadArtifact(p, aid, v) =>
                    /\ result'.ok
                    /\ result'.data.content = artifacts[aid].content
                    /\ artifacts[aid].read_price = 0 =>
                         /\ result'.data.read_price_paid = 0
                         /\ get_scrip(ledger', p) = get_scrip(ledger, p)]_vars

(***************************************************************************)
(* Properties of the action log and of the intake of payloads.             *)
(***************************************************************************)
\* C15: every action the kernel executes, entered through execute_intent or
\* execute_action_data or as a nested invoke of sandboxed code, appends
\* exactly one 'action' event when it is done: World counts each action it
\* enters in event_number, so once no code is running the log holds as many
\* 'action' events as event_number counts.
C15_OneActionEvent == stack = <<>> => action_events = event_number

(***************************************************************************)
(* The intake of action payloads (world/actions.py, world/world.py).       *)
(* A JSON value is [type, n, s]: its type, its number or length, its text. *)
(* The texts of the model carry no blanks and no upper case, so strip()    *)
(* and lower() leave them as they are.                                     *)
(***************************************************************************)
Null == [type |-> "null", n |-> 0, s |-> ""]
Num(n) == [type |-> "int", n |-> n, s |-> ""]
Str(s) == [type |-> "str", n |-> 0, s |-> s]
\* a list of n items
List(n) == [type |-> "list", n |-> n, s |-> ""]

\* the text a payload is sent as: not JSON at all, a JSON array, or a JSON object
\* with the given fields
NoFields == [k \in {} |-> Null]
InvalidJson == [json |-> "invalid", fields |-> NoFields]
JsonArray == [json |-> "array", fields |-> NoFields]
Obj(fields) == [json |-> "object", fields |-> fields]

\* dict.get(key): None for a missing key
get(data, key) == IF key \in DOMAIN data THEN data[key] ELSE Null

\* str.isdigit() and int(text) on the texts of the model
DigitTexts == {"0", "1", "2"}
isdigit(text) == text \in DigitTexts
int_text(text) == CASE text = "0" -> 0 [] text = "1" -> 1 [] text = "2" -> 2

\* _coerce_int: [ok, n], ok FALSE for None
coerce_int(value) ==
    IF value.type = "int" THEN [ok |-> TRUE, n |-> value.n]
    ELSE IF value.type = "str" /\ isdigit(value.s) THEN [ok |-> TRUE, n |-> int_text(value.s)]
    ELSE [ok |-> FALSE, n |-> 0]

\* Python's truth of a JSON value
truthy(value) ==
    CASE value.type = "null" -> FALSE
      [] value.type = "int" -> value.n # 0
      [] value.type = "str" -> value.s # ""
      [] value.type = "list" -> value.n # 0

\* int(value or 0): [raised, n]; int() of a text that is no number raises ValueError,
\* int() of a list raises TypeError
int_or_zero(value) ==
    IF ~truthy(value) THEN [raised |-> "None", n |-> 0]
    ELSE IF value.type = "int" THEN [raised |-> "None", n |-> value.n]
    ELSE IF value.type = "str"
    THEN IF isdigit(value.s) THEN [raised |-> "None", n |-> int_text(value.s)]
         ELSE [raised |-> "ValueError", n |-> 0]
    ELSE [raised |-> "TypeError", n |-> 0]

\* the text of a JSON string as the store's sequence of characters
chars(text) == IF text = "" THEN <<>> ELSE <<text>>

isstr(value) == value.type = "str"

\* what parse_intent_from_json comes to: a typed intent, a rejection string, or an
\* exception that leaves it
NoIntent == [action_type |-> "None"]
Intent(intent) == [kind |-> "intent", message |-> "None", exc |-> "None", intent |-> intent]
Rejection(message) == [kind |-> "rejected", message |-> message, exc |-> "None", intent |-> NoIntent]
Raises(exc) == [kind |-> "raises", message |-> "None", exc |-> exc, intent |-> NoIntent]

\* parse_intent_from_json, with the branches of noop, write_artifact and transfer;
\* a payload carries its content as a string or leaves it out
parse_intent_from_json(principal_id, payload) ==
    LET data == payload.fields
        action_type == get(data, "action_type")
        action_type_raw == IF "action_type" \notin DOMAIN data THEN ""
                           ELSE IF isstr(action_type) THEN action_type.s
                           ELSE "None"
        artifact_id == get(data, "artifact_id")
        content == get(data, "content")
        read_price == int_or_zero(get(data, "read_price"))
        invoke_price == int_or_zero(IF "invoke_price" \in DOMAIN data
                                    THEN data["invoke_price"] ELSE get(data, "price"))
        access_contract_id == get(data, "access_contract_id")
        recipient_id == get(data, "recipient_id")
        amount == coerce_int(get(data, "amount"))
        memo == get(data, "memo")
    IN  IF payload.json = "invalid" THEN Rejection("Invalid JSON")
        ELSE IF payload.json # "object" THEN Rejection("Action payload must be a JSON object")
        ELSE IF action_type_raw = "noop" THEN Intent([action_type |-> "noop"])
        ELSE IF action_type_raw = "write_artifact"
        THEN IF ~isstr(artifact_id) \/ artifact_id.s = ""
             THEN Rejection("write_artifact requires 'artifact_id' (string)")
             ELSE IF read_price.raised # "None" THEN Raises(read_price.raised)
             ELSE IF invoke_price.raised # "None" THEN Raises(invoke_price.raised)
             ELSE IF access_contract_id.type \notin {"null", "str"}
             THEN Rejection("access_contract_id must be a string or null")
             ELSE Intent([action_type |-> "write_artifact",
                          write |-> [artifact_id |-> artifact_id.s,
                                     content |-> IF "content" \notin DOMAIN data
                                                 THEN <<>> ELSE chars(content.s),
                                     executable |-> FALSE,
                                     code |-> "",
                                     read_price |-> read_price.n,
                                     access_contract_id |->
                                         IF isstr(access_contract_id)
                                         THEN access_contract_id.s ELSE "None",
                                     metadata |-> {}]])
        ELSE IF action_type_raw = "transfer"
        THEN IF ~isstr(recipient_id) \/ recipient_id.s = ""
             THEN Rejection("transfer requires 'recipient_id'")
             ELSE IF ~amount.ok \/ amount.n <= 0
             THEN Rejection("transfer requires positive integer 'amount'")
             ELSE IF memo.type \notin {"null", "str"}
             THEN Rejection("transfer memo must be string or null")
             ELSE Intent([action_type |-> "transfer", recipient_id |-> recipient_id.s,
                          amount |-> amount.n])
        ELSE Rejection("Unknown action_type")

\* cap on World.event_number in the runs of the intake
MaxIntake == 4

\* a variant of is_rejection that takes nothing for a rejection
is_rejection_never(parsed) == FALSE

\* World.execute_action_data's test that the parser returned a rejection string
is_rejection(parsed) == parsed.kind = "rejected"

\* World.execute_action_data, then World.execute_intent and ActionExecutor.execute
ExecuteActionData(p, payload, verdict) ==
    LET parsed == parse_intent_from_json(p, payload)
        intent == parsed.intent
        T == transfer_action(ledger, p, intent.recipient_id, intent.amount)
        W == write_action(artifacts, p, intent.write, verdict)
    IN  /\ event_number < MaxIntake
        /\ IF parsed.kind = "raises"
           THEN /\ result' = Raised("parse_intent_from_json", parsed.exc)
                /\ UNCHANGED <<ledger, artifacts, event_number, action_events>>
           ELSE IF is_rejection(parsed)
           THEN /\ result' = [Res("execute_action_data", FALSE, "invalid_action") EXCEPT
                                !.message = parsed.message]
                /\ UNCHANGED <<ledger, artifacts, event_number, action_events>>
           ELSE /\ event_number' = event_number + 1
                /\ CASE intent.action_type = "noop" ->
                          /\ result' = Res("noop", TRUE, "None")
                          /\ action_events' = action_events + 1
                          /\ UNCHANGED <<ledger, artifacts>>
                     [] intent.action_type = "transfer" ->
                          /\ result' = Res("transfer", T.ok, T.code)
                          /\ ledger' = T.L
                          /\ action_events' = action_events + 1
                          /\ UNCHANGED artifacts
                     [] intent.action_type = "write_artifact" ->
                          /\ result' = W.result
                          /\ artifacts' = W.artifacts
                          /\ action_events' =
                                IF W.result.raised = "None" THEN action_events + 1
                                ELSE action_events
                          /\ UNCHANGED ledger
                     [] OTHER ->
                          /\ result' = [Res("execute", FALSE, "None") EXCEPT
                                          !.message = "unknown action"]
                          /\ action_events' = action_events + 1
                          /\ UNCHANGED <<ledger, artifacts>>
        /\ UNCHANGED <<submissions, stack, invoke_result>>
        /\ UNCHANGED <<rate_vars, runner_vars, llm_vars, charge_vars, clock_vars, standing_vars>>

\* the sets of fields a payload may carry under one key, the key left out included
Field(key, values) == {NoFields} \cup {key :> v : v \in values}

\* the payloads sent in: malformed ones, unknown and removed action types, and the
\* known action types with fields missing, wrongly typed or not numeric
IntakePayloads ==
    {InvalidJson, JsonArray, Obj(NoFields)}
    \cup {Obj("action_type" :> t) : t \in {Str("noop"), Str("submit_to_task"), Num(1)}}
    \cup {Obj(("action_type" :> Str("transfer")) @@ r @@ a) :
            r \in Field("recipient_id", {Str("alpha_2"), Num(1)}),
            a \in Field("amount", {Num(0), Num(1), Str("1"), Str("abc")})}
    \cup {Obj(("action_type" :> Str("write_artifact")) @@ ("content" :> Str("a"))
               @@ i @@ r @@ q) :
            i \in Field("artifact_id", {Str("doc")}),
            r \in Field("read_price", {Num(1), Str("2"), Str("abc"), List(0), List(1)}),
            q \in Field("price", {Str("abc")})}

NextIntake ==
    \E p \in StorePrincipals, payload \in IntakePayloads :
       \E v \in (IF "artifact_id" \in DOMAIN payload.fields /\ payload.fields["artifact_id"].type = "str"
                 THEN verdicts_of(artifacts, payload.fields["artifact_id"].s)
                 ELSE {"allow"}) :
          ExecuteActionData(p, payload, v)

SpecIntake == InitStore /\ [][NextIntake]_vars

\* the payloads that the parser rejects
RejectedPayloads ==
    {payload \in IntakePayloads : parse_intent_from_json("alpha_1", payload).kind = "rejected"}

\* C16: parse_intent_from_json never raises: whatever the payload, it comes to a
\* typed intent or to a rejection string.
C16_ParserNeverRaises == result.op = "parse_intent_from_json" => result.raised = "None"

\* C17: a payload that the parser rejects makes execute_action_data return a failed
\* result with error_code invalid_action and change nothing: the ledger, the
\* artifact store, the pending mint submissions and event_number stay as they were.
C17_RejectedMutatesNothing ==
    [][\A p \in StorePrincipals, payload \in RejectedPayloads :
          ExecuteActionData(p, payload, "allow")
          => /\ ~result'.ok
             /\ result'.code = "invalid_action"
             /\ UNCHANGED <<ledger, artifacts, submissions, event_number>>]_vars

\* a payload was rejected after a transfer moved scrip and a document was written
C17_Witness ==
    /\ result.code = "invalid_action"
    /\ event_number > 0
    /\ "doc" \in DOMAIN artifacts
    /\ get_scrip(ledger, "alpha_2") > StartScrip

(***************************************************************************)
(* Properties of the handlers under agent-supplied code and of protected   *)
(* and deleted artifacts.                                                  *)
(***************************************************************************)
\* C18: no exception or timeout of agent-supplied code escapes an action: when an
\* artifact's code, or the permission function of an artifact-defined contract that
\* governs the target, raises or times out, the action still returns a result.
C18_NoExceptionEscapes == result.raised = "None"

\* C19: no sequence of ordinary actions by any principal, the owner included,
\* changes the content, code, metadata or deleted flag of a kernel_protected
\* artifact; in particular the kernel services are never deleted.
C19_ProtectedUnchanged ==
    \A aid \in DOMAIN bootstrap_artifacts :
       bootstrap_artifacts[aid].kernel_protected
       => /\ aid \in DOMAIN artifacts
          /\ artifacts[aid].content = bootstrap_artifacts[aid].content
          /\ artifacts[aid].code = bootstrap_artifacts[aid].code
          /\ artifacts[aid].metadata = bootstrap_artifacts[aid].metadata
          /\ artifacts[aid].deleted = bootstrap_artifacts[aid].deleted

\* C20: deletion is irreversible: once an artifact is soft-deleted no later action
\* clears its deleted flag, and every later read, write, edit, invoke,
\* update_metadata or delete aimed at it fails.
C20_DeletionIrreversible ==
    [][\A aid \in DOMAIN artifacts :
          artifacts[aid].deleted
          => /\ aid \in DOMAIN artifacts'
             /\ artifacts'[aid].deleted
             /\ (result'.ok \/ result'.raised # "None")
                => \A p \in StorePrincipals, v \in Verdicts :
                      /\ \A w \in StoreWrites :
                            w[2].artifact_id = aid => ~WriteArtifact(p, w[2], v)
                      /\ ~ReadArtifact(p, aid, v)
                      /\ ~EditArtifact(p, aid, <<"a">>, <<"eacute">>, v)
                      /\ ~DeleteArtifact(p, aid, v)
                      /\ \A key \in MetaKeys, value \in MetaValues :
                            ~UpdateMetadata(p, aid, key, value, v)
                      /\ \A outcome \in Outcomes : ~InvokeArtifact(p, aid, v, outcome)]_vars

\* a write aimed at the deleted document was refused
C20_Witness ==
    /\ "doc" \in DOMAIN artifacts
    /\ artifacts["doc"].deleted
    /\ result.op = "write_artifact"
    /\ ~result.ok

(***************************************************************************)
(* The AI-call syscall (world/world.py, call_llm_as_syscall) over the      *)
(* payer's llm_budget and its llm_calls and llm_tokens windows.  Both      *)
(* resources have the limit RateLimit; costs are whole units.              *)
(***************************************************************************)
MaxUsage == 3           \* usage records the model lets a window of the syscall hold
MaxTokens == 2          \* the largest token estimate and the largest measured overrun

\* a variant of refund that records nothing
refund_nothing(b, t, amount) == b

\* RateTracker.refund: the bucket it leaves
refund(b, t, amount) == IF amount <= 0 THEN b ELSE Append(b, Record(t, 0 - amount))

\* the budget reserved for an estimate of tokens: a floor, then in proportion
estimated_cost(estimated_tokens) == Max(1, estimated_tokens \div 2)

\* what the provider call comes to: an exception, or a result with its measured
\* tokens and cost and its cache flag
ProviderResults ==
    {[failed |-> TRUE, cache_hit |-> FALSE, tokens |-> 0, cost |-> 0]}
    \cup [failed : {FALSE}, cache_hit : BOOLEAN, tokens : 0..(MaxTokens + 1), cost : 0..2]

Min(a, b) == IF a <= b THEN a ELSE b

\* call_llm_as_syscall for an allowed model: the provider call takes d ticks
CallLlm(payer, estimated_tokens, d, provider) ==
    LET cost == estimated_cost(estimated_tokens)
        t0 == now
        t1 == now + d
        budget == llm_budget[payer]
        calls == consume(usage["llm_calls"][payer], t0, 1)
        tokens == consume(usage["llm_tokens"][payer], t0, estimated_tokens)
        returns(code, budget_left, calls_left, tokens_left, t) ==
            /\ Len(calls_left) <= MaxUsage
            /\ Len(tokens_left) <= MaxUsage
            /\ llm_result' = [payer |-> payer, ok |-> code = "None", code |-> code]
            /\ llm_budget' = [llm_budget EXCEPT ![payer] = budget_left]
            /\ usage' = [usage EXCEPT !["llm_calls"][payer] = calls_left,
                                      !["llm_tokens"][payer] = tokens_left]
            /\ now' = t
        actual_tokens == IF provider.cache_hit THEN 0 ELSE provider.tokens
        actual_cost == IF provider.cache_hit THEN 0 ELSE provider.cost
        calls_settled == IF provider.cache_hit THEN refund(calls.b, t1, 1) ELSE calls.b
        tokens_settled ==
            IF actual_tokens < estimated_tokens
            THEN refund(tokens.b, t1, estimated_tokens - actual_tokens)
            ELSE IF actual_tokens > estimated_tokens
            THEN consume(tokens.b, t1, actual_tokens - estimated_tokens).b
            ELSE tokens.b
        budget_settled ==
            IF actual_cost <= cost THEN budget - actual_cost
            ELSE budget - cost - Min(actual_cost - cost, Max(0, budget - cost))
    IN  /\ t1 <= MaxTime
        /\ IF budget < cost
           THEN /\ d = 0
                /\ returns("insufficient_budget", budget, usage["llm_calls"][payer],
                           usage["llm_tokens"][payer], t0)
           ELSE IF ~calls.ok
           THEN /\ d = 0
                /\ returns("rate_limited", budget, calls.b, usage["llm_tokens"][payer], t0)
           ELSE IF ~tokens.ok
           THEN /\ d = 0
                /\ returns("rate_limited", budget, refund(calls.b, t0, 1), tokens.b, t0)
           ELSE IF provider.failed
           THEN returns("llm_error", budget, refund(calls.b, t1, 1),
                        refund(tokens.b, t1, estimated_tokens), t1)
           ELSE returns("None", budget_settled, calls_settled, tokens_settled, t1)
        /\ UNCHANGED not_llm

\* the clock advances between calls
LlmTick ==
    /\ now < MaxTime
    /\ now' = now + 1
    /\ UNCHANGED llm_vars
    /\ UNCHANGED not_llm

Payers == {"alpha_1"}

NextLlm ==
    \/ \E payer \in Payers, estimated_tokens \in 1..MaxTokens, d \in {0, 1, WindowTicks + 1},
          provider \in ProviderResults : CallLlm(payer, estimated_tokens, d, provider)
    \/ LlmTick

SpecLlm == InitStore /\ [][NextLlm]_vars

(***************************************************************************)
(* Properties of the AI-call syscall and of the budget gate of the loops.  *)
(***************************************************************************)
\* C21: when the provider fails during the syscall, or the call is refused for a
\* rate limit after the budget was reserved, the payer's llm_budget and its
\* llm_calls and llm_tokens window usage are what they were before the call when
\* the syscall returns its error (a window's usage being read at that moment).
C21_FailedCallRefunded ==
    [][\A payer \in Payers :
          (/\ llm_result'.payer = payer
           /\ llm_result'.code \in {"llm_error", "rate_limited"}
           /\ llm_result' # llm_result \/ usage' # usage \/ now' # now)
          => /\ llm_budget'[payer] = llm_budget[payer]
             /\ \A r \in Resources :
                   get_usage(usage'[r][payer], now') = get_usage(usage[r][payer], now')]_vars

\* the provider failed while both windows held earlier usage
C21_Witness ==
    /\ llm_result.code = "llm_error"
    /\ \A r \in {"llm_calls", "llm_tokens"} : get_usage(usage[r]["alpha_1"], now) > 0

(***************************************************************************)
(* The budget gate of the loop tasks (simulation/runner.py): the loops     *)
(* read the llm_budget the syscall has left, and their actions call the    *)
(* syscall, transfer and mint scrip, and bid; World.tick resolves the      *)
(* auction and pays its UBI.                                               *)
(***************************************************************************)
\* a variant of the budget test that lets every principal through
budget_ok_always(B, principal_id) == TRUE

\* the test of the gate: not (get_llm_budget(principal_id) <= 0)
budget_ok(B, principal_id) == ~(B[principal_id] <= 0)

\* the poll of a created task or of one whose sleep has ended
LoopPoll(t, artifact_ok) == LoopResume(t, artifact_ok, budget_ok(llm_budget, loop_owner(t)))

\* the poll of a task released from the pause gate
LoopPollWoken(t, artifact_ok) == LoopWoken(t, artifact_ok, budget_ok(llm_budget, loop_owner(t)))

\* what the provider returns to the calls of the loops: the estimated tokens at a cost
GateProviders == [failed : {FALSE}, cache_hit : {FALSE}, tokens : {1}, cost : 1..2]

\* the artifact's run calls _syscall_llm, paid by the loop's principal
LoopCall(t, provider) ==
    /\ may_step(t, "act_exec")
    /\ CallLlm(loop_owner(t), 1, 0, provider)

\* the artifact's run transfers scrip of its principal
LoopTransfer(t, r, n) ==
    /\ may_step(t, "act_exec")
    /\ Transfer(loop_owner(t), r, n)

\* the artifact's run mints scrip, its principal's artifact holding can_mint
LoopMint(t, r, n) ==
    /\ may_step(t, "act_exec")
    /\ MintAction(TRUE, TRUE, r, n)

\* the artifact's run bids in the auction
LoopSubmit(t, bid) ==
    /\ may_step(t, "act_exec")
    /\ SubmitToMint(loop_owner(t), TRUE, TRUE, bid)

\* World.tick: the auction update resolves and pays the UBI
TickResolve(score) ==
    /\ may_step("run", "tick_end")
    /\ submissions # <<>>
    /\ Resolve(score)

InitGate ==
    /\ ledger = bootstrap_ledger(2)
    /\ submissions = <<>>
    /\ result = Res("init", TRUE, "None")
    /\ InvokeIdle
    /\ RateIdle
    /\ RunnerIdle
    /\ StoreIdle
    /\ LlmIdle
    /\ ChargeIdle
    /\ ClockIdle
    /\ StandingIdle

NextGate ==
    \/ RunStart
    \/ pause
    \/ resume
    \/ stop
    \/ \E t \in Loops, a \in BOOLEAN : LoopPoll(t, a)
    \/ \E t \in Loops, a \in BOOLEAN : LoopPollWoken(t, a)
    \/ \E provider \in GateProviders : LoopCall("alpha_1_loop", provider)
    \/ \E r \in StorePrincipals : LoopTransfer("alpha_2_loop", r, 1)
    \/ \E r \in StorePrincipals : LoopMint("alpha_2_loop", r, 1)
    \/ LoopSubmit("alpha_2_loop", 1)
    \/ TickResolve(0)
    \/ \E t \in Loops : LoopExec(t)
    \/ \E t \in Loops : LoopEnd(t, TRUE)
    \/ \E t \in Loops : LoopCancelled(t)
    \/ \E t \in Tasks : Timer(t)
    \/ TickResume
    \/ TickWoken
    \/ \E limit \in {"None", "duration"} : TickCheck(limit)
    \/ TickEnd(FALSE)
    \/ Finally
    \/ Gathered

SpecGate == InitGate /\ [][NextGate]_vars

\* C22: a loop task enters its action (the invoke of run) only from a poll that found
\* its principal's llm_budget above 0; a poll that reaches the budget test with a
\* budget <= 0 puts the principal in frozen_agents and the task to sleep; and a
\* principal in frozen_agents stays there while its budget is <= 0.
C22_ExhaustedNeverInvokes ==
    [][\A t \in Loops :
          LET principal_id == loop_owner(t)
              polled == pc[t] \in {"created", "ready", "woken"} /\ pc'[t] \in {"sleep", "act_exec"}
          IN  /\ (pc[t] # "act_exec" /\ pc'[t] = "act_exec") => llm_budget[principal_id] > 0
              /\ (polled /\ llm_budget[principal_id] <= 0)
                    => pc'[t] = "sleep" /\ principal_id \in frozen_agents'
              /\ (principal_id \in frozen_agents /\ llm_budget'[principal_id] <= 0)
                    => principal_id \in frozen_agents']_vars

\* alpha_1 has spent its budget, is frozen, and its loop sleeps until the next poll
C22_Witness ==
    /\ llm_budget["alpha_1"] = 0
    /\ "alpha_1" \in frozen_agents
    /\ pc["alpha_1_loop"] = "sleep"
    /\ iterations["alpha_1_loop"] > 0

\* C23: a frozen principal that has been credited scrip by a transfer, a mint or the
\* UBI of an auction, and so holds more than it started with, is taken out of
\* frozen_agents by the next poll of its loop, which goes on to invoke run.
C23_CreditedUnfreezes ==
    [][\A t \in Loops :
          LET principal_id == loop_owner(t)
          IN  (/\ pc[t] \in {"ready", "woken"}
               /\ pc'[t] \in {"sleep", "act_exec"}
               /\ principal_id \in frozen_agents
               /\ get_scrip(ledger, principal_id) > StartScrip)
              => pc'[t] = "act_exec" /\ principal_id \notin frozen_agents']_vars

(***************************************************************************)
(* Charge delegation (world/delegation.py) and the priced invoke           *)
(* (world/action_executor.py, _invoke).  The invokes aim at one executable *)
(* artifact, "svc", owned by alpha_2 under the freeware contract; every    *)
(* delegation has the window WindowTicks.                                  *)
(***************************************************************************)
MaxCharges == 2         \* charge records the model lets a pair's history hold
ChargeHorizon == 3      \* the clock of the delegation model stops here

Cap(n) == [set |-> TRUE, v |-> n]

\* expires_at as the grant stored it: an ISO text without offset, an ISO text with a
\* UTC offset (the form of World.now_iso), a text that is no ISO date
Naive(t) == [kind |-> "naive", at |-> t]
Aware(t) == [kind |-> "aware", at |-> t]
Junk == [kind |-> "junk", at |-> 0]

DelegationEntry(max_per_call, max_per_window, expires_at) ==
    [exists |-> TRUE, max_per_call |-> max_per_call, max_per_window |-> max_per_window,
     expires_at |-> expires_at]

\* DelegationManager._window_usage over the pruned bucket
window_usage(b) == sum_amounts(b)

\* DelegationManager.authorize_charge at time t: the verdict, the exception that leaves
\* it, and the history its lazy pruning leaves
authorize_charge(E, H, payer, charger, amount, t) ==
    LET entry == E[payer][charger]
        b == H[payer][charger]
        pruned == prune(b, t)
        verdict(ok, reason, raised, left) ==
            [ok |-> ok, reason |-> reason, raised |-> raised,
             H |-> [H EXCEPT ![payer][charger] = left]]
    IN  IF ~entry.exists THEN verdict(FALSE, "no delegation", "None", b)
        ELSE IF entry.expires_at.kind = "junk"
        THEN verdict(FALSE, "invalid expires_at", "None", b)
        ELSE IF entry.expires_at.kind = "aware"
        THEN verdict(FALSE, "None", "TypeError", b)
        ELSE IF entry.expires_at.kind = "naive" /\ t >= entry.expires_at.at
        THEN verdict(FALSE, "delegation expired", "None", b)
        ELSE IF entry.max_per_call.set /\ amount > entry.max_per_call.v
        THEN verdict(FALSE, "exceeds per-call cap", "None", b)
        ELSE IF entry.max_per_window.set /\ window_usage(pruned) + amount > entry.max_per_window.v
        THEN verdict(FALSE, "exceeds window cap", "None", pruned)
        ELSE verdict(TRUE, "ok", "None", IF entry.max_per_window.set THEN pruned ELSE b)

\* DelegationManager.record_charge
record_charge(H, payer, charger, amount, t) ==
    [H EXCEPT ![payer][charger] = Append(@, Record(t, amount))]

\* DelegationManager.resolve_payer for an artifact whose auth_state names its owner
resolve_payer(charge_to, caller_id, artifact) ==
    IF charge_to = "caller" THEN caller_id
    ELSE IF charge_to = "target" THEN artifact.owner
    ELSE "alpha_1"      \* "pool:alpha_1"

ChargeRes(op, amount, ok, reason, raised) ==
    [op |-> op, amount |-> amount, ok |-> ok, reason |-> reason, raised |-> raised]

not_charge == <<economy_vars, invoke_vars, rate_vars, runner_vars, store_vars, llm_vars,
                clock_vars, standing_vars>>

\* kernel_delegation "grant" by payer
Grant(payer, charger, entry) ==
    /\ entries' = [entries EXCEPT ![payer][charger] = entry]
    /\ charge_result' = ChargeRes("grant", 0, TRUE, "None", "None")
    /\ UNCHANGED <<priced, history>>
    /\ UNCHANGED not_charge

\* kernel_delegation "revoke" by payer
Revoke(payer, charger) ==
    /\ entries' = [entries EXCEPT ![payer][charger] = NoEntry]
    /\ charge_result' = ChargeRes("revoke", 0, entries[payer][charger].exists, "None", "None")
    /\ UNCHANGED <<priced, history>>
    /\ UNCHANGED not_charge

\* DelegationManager.authorize_charge called on its own
AuthorizeCharge(payer, charger, amount) ==
    /\ \E V \in {authorize_charge(entries, history, payer, charger, amount, now)} :
          /\ history' = V.H
          /\ charge_result' = ChargeRes("authorize_charge", amount, V.ok, V.reason, V.raised)
    /\ UNCHANGED <<priced, entries>>
    /\ UNCHANGED not_charge

\* update_metadata of charge_to by the owner of the priced artifact
SetChargeTo(charge_to) ==
    /\ priced' = [priced EXCEPT !.charge_to = charge_to]
    /\ charge_result' = ChargeRes("update_metadata", 0, TRUE, "None", "None")
    /\ UNCHANGED <<entries, history>>
    /\ UNCHANGED not_charge

\* the clock of the delegation model
ChargeTick ==
    /\ now < ChargeHorizon
    /\ now' = now + 1
    /\ UNCHANGED <<bucket, rate_result>>
    /\ UNCHANGED not_rate

\* what the code of the priced artifact does through kernel_actions while it runs, as the
\* caller: nothing, a transfer of one scrip of the caller to alpha_3, or a write of the
\* artifact with another invoke_price (allowed to its writer, the owner)
Effects == {"none", "transfer", "reprice"}

run_effect(effect, caller_id, L, artifact) ==
    IF effect = "transfer"
    THEN [L |-> transfer_action(L, caller_id, "alpha_3", 1).L, artifact |-> artifact]
    ELSE IF effect = "reprice" /\ caller_id = artifact.owner
    THEN [L |-> L, artifact |-> [artifact EXCEPT !.invoke_price = 2]]
    ELSE [L |-> L, artifact |-> artifact]

\* the longest record of cpu_seconds usage of a payer
MaxCpuRecords == 1

\* the result of a priced invoke with its price_paid and charged_to, and the invoker_id
\* of the invoke_success or invoke_failure event
InvokeRes(invoker_id, ok, code, price_paid, charged_to) ==
    [Res("invoke_artifact", ok, code) EXCEPT !.data = [invoker_id |-> invoker_id,
                                                       price_paid |-> price_paid,
                                                       charged_to |-> charged_to]]

\* ActionExecutor._invoke of run on the priced artifact by caller_id: allowed is the
\* verdict of the contract, success and cpu_used come from the execution
InvokeCharged(caller_id, allowed, effect, success, cpu_used) ==
    LET payer == resolve_payer(priced.charge_to, caller_id, priced)
        price == priced.invoke_price
        V == IF payer # caller_id
             THEN authorize_charge(entries, history, payer, caller_id, price, now)
             ELSE [ok |-> TRUE, reason |-> "ok", raised |-> "None", H |-> history]
        refused(R, H) ==
            /\ result' = R
            /\ history' = H
            /\ UNCHANGED <<ledger, priced, usage>>
        ran == run_effect(effect, caller_id, ledger, priced)
        recipient == ran.artifact.owner
        price_paid == ran.artifact.invoke_price
        paid == IF price_paid > 0 /\ recipient # payer
                THEN transfer_scrip(ran.L, payer, recipient, price_paid).L
                ELSE ran.L
        recorded == IF payer # caller_id /\ price_paid > 0
                    THEN record_charge(V.H, payer, caller_id, price_paid, now)
                    ELSE V.H
        charged == IF cpu_used > 0
                   THEN [usage EXCEPT !["cpu_seconds"][payer] = consume(@, now, cpu_used).b]
                   ELSE usage
    IN  /\ Len(recorded[payer][caller_id]) <= MaxCharges
        /\ Len(charged["cpu_seconds"][payer]) <= MaxCpuRecords
        /\ IF ~allowed
           THEN refused(InvokeRes(caller_id, FALSE, "not_authorized", 0, "None"), history)
           ELSE IF V.raised # "None"
           THEN refused([InvokeRes(caller_id, FALSE, "None", 0, "None")
                            EXCEPT !.raised = V.raised], V.H)
           ELSE IF ~V.ok
           THEN refused(InvokeRes(caller_id, FALSE, "not_authorized", 0, "None"), V.H)
           ELSE IF price > 0 /\ ~can_afford_scrip(ledger, payer, price)
           THEN refused(InvokeRes(caller_id, FALSE, "insufficient_funds", 0, "None"), V.H)
           ELSE IF ~success
           THEN /\ result' = InvokeRes(caller_id, FALSE, "runtime_error", 0, payer)
                /\ ledger' = ran.L
                /\ priced' = ran.artifact
                /\ history' = V.H
                /\ usage' = charged
           ELSE /\ result' = InvokeRes(caller_id, TRUE, "None", price_paid, payer)
                /\ ledger' = paid
                /\ priced' = ran.artifact
                /\ history' = recorded
                /\ usage' = charged
        /\ UNCHANGED <<submissions, entries, charge_result, llm_budget, llm_result>>
        /\ UNCHANGED <<invoke_vars, rate_vars, runner_vars, store_vars, clock_vars, standing_vars>>

\* DelegationManager.record_charge called on its own
RecordCharge(payer, charger, amount) ==
    /\ Len(history[payer][charger]) < MaxCharges
    /\ history' = record_charge(history, payer, charger, amount, now)
    /\ charge_result' = ChargeRes("record_charge", amount, TRUE, "None", "None")
    /\ UNCHANGED <<priced, entries>>
    /\ UNCHANGED not_charge

Callers == {"alpha_1", "alpha_2"}
ChargeTos == {"caller", "target", "pool:alpha_1"}
Grants ==
    {DelegationEntry(c, w, e) :
        c \in {NoCap, Cap(1)}, w \in {NoCap, Cap(2)}, e \in {NoExpiry, Naive(2), Aware(2), Junk}}

\* the grants alpha_1 makes to alpha_2 before the invokes: a cap per call, a cap per
\* window, one that has expired, one whose expiry carries a UTC offset
InvokeGrants ==
    {DelegationEntry(Cap(1), NoCap, NoExpiry), DelegationEntry(NoCap, Cap(2), NoExpiry),
     DelegationEntry(NoCap, NoCap, Naive(0)), DelegationEntry(NoCap, NoCap, Aware(1))}

\* <<allowed, effect, success, cpu_used>> of an invoke: a refused one runs no code
InvokeInputs ==
    {<<FALSE, "none", TRUE, 0>>}
    \cup {<<TRUE, effect, success, cpu_used>> :
            effect \in Effects, success \in BOOLEAN, cpu_used \in 0..1}

InitCharge ==
    /\ ledger = bootstrap_ledger(3)
    /\ submissions = <<>>
    /\ result = Res("init", TRUE, "None")
    /\ InvokeIdle
    /\ RateIdle
    /\ RunnerIdle
    /\ StoreIdle
    /\ LlmIdle
    /\ ChargeIdle
    /\ ClockIdle
    /\ StandingIdle

NextDelegation ==
    \/ \E entry \in Grants : Grant("alpha_1", "alpha_2", entry)
    \/ Revoke("alpha_1", "alpha_2")
    \/ \E amount \in 0..2 : AuthorizeCharge("alpha_1", "alpha_2", amount)
    \/ \E amount \in 1..2 : RecordCharge("alpha_1", "alpha_2", amount)
    \/ ChargeTick

SpecDelegation == InitCharge /\ [][NextDelegation]_vars

NextCharge ==
    \/ \E entry \in InvokeGrants : Grant("alpha_1", "alpha_2", entry)
    \/ Revoke("alpha_1", "alpha_2")
    \/ \E charge_to \in ChargeTos : SetChargeTo(charge_to)
    \/ Transfer("alpha_3", "alpha_1", 1)
    \/ \E caller_id \in Callers, i \in InvokeInputs :
          InvokeCharged(caller_id, i[1], i[2], i[3], i[4])

SpecCharge == InitCharge /\ [][NextCharge]_vars

(***************************************************************************)
(* Properties of charge delegation and of the priced invoke.               *)
(***************************************************************************)
\* the delegation e, with the charges b recorded for its pair, allows amount at time t:
\* it exists, its expiry, if it has one, is a moment t has not reached, and its caps
\* admit the amount
delegation_allows(e, b, amount, t) ==
    /\ e.exists
    /\ \/ e.expires_at.kind = "None"
       \/ e.expires_at.kind \in {"naive", "aware"} /\ t < e.expires_at.at
    /\ e.max_per_call.set => amount <= e.max_per_call.v
    /\ e.max_per_window.set => sum_amounts(prune(b, t)) + amount <= e.max_per_window.v

\* a step of _invoke on the priced artifact, or one that changes nothing it reads
invoke_step ==
    /\ result'.op = "invoke_artifact"
    /\ charge_result' = charge_result
    /\ entries' = entries
    /\ priced'.charge_to = priced.charge_to

\* C24: an invoke takes its price from, or charges CPU to, a principal other than the
\* caller only if, when the invoke was authorized, a delegation from that principal to
\* the caller existed, was not expired and allowed the amount taken; without such a
\* delegation the invoke returns not_authorized and changes no balance and no usage.
C24_DelegatedChargeOnly ==
    [][invoke_step =>
          LET caller_id == result'.data.invoker_id
              payer == resolve_payer(priced.charge_to, caller_id, priced)
              e == entries[payer][caller_id]
              b == history[payer][caller_id]
              debited == get_scrip(ledger, payer) - get_scrip(ledger', payer)
          IN  payer # caller_id =>
                 /\ debited > 0 => delegation_allows(e, b, debited, now)
                 /\ usage'["cpu_seconds"][payer] # usage["cpu_seconds"][payer]
                       => delegation_allows(e, b, priced.invoke_price, now)
                 /\ ~delegation_allows(e, b, priced.invoke_price, now)
                       => /\ result'.code = "not_authorized"
                          /\ result'.raised = "None"
                          /\ ledger' = ledger
                          /\ usage' = usage]_vars

\* C27: authorize_charge returns a verdict, which allows exactly when a grant from payer
\* to charger exists, is not expired, and its per-call cap and its per-window cap, with
\* the charges recorded in the last window, admit the amount; the grant is left as it is.
C27_AllowsExactlyWhen ==
    [][(charge_result'.op = "authorize_charge" /\ now' = now) =>
          /\ charge_result'.raised = "None"
          /\ charge_result'.ok = delegation_allows(entries["alpha_1"]["alpha_2"],
                                                   history["alpha_1"]["alpha_2"],
                                                   charge_result'.amount, now)
          /\ entries' = entries]_vars

\* C28: after a successful invoke at a price above 0, price_paid scrip has moved from the
\* payer to the recipient, the owner, unless the two are the same, whatever the code did
\* with balances while it ran; after a failed execution no price has moved.  What moved
\* is read off the side of the payment that is not the caller, whose own balance the
\* code may have spent.
C28_PricePaidIsMoved ==
    [][(invoke_step /\ result'.data.charged_to # "None") =>
          LET caller_id == result'.data.invoker_id
              payer == result'.data.charged_to
              recipient == priced'.owner
              moved == IF recipient # caller_id
                       THEN get_scrip(ledger', recipient) - get_scrip(ledger, recipient)
                       ELSE get_scrip(ledger, payer) - get_scrip(ledger', payer)
          IN  recipient # payer =>
                 /\ result'.ok => moved = result'.data.price_paid
                 /\ ~result'.ok => moved = 0]_vars

(***************************************************************************)
(* The auction clock and the submission ids (world/mint.py).  The auction  *)
(* is created at time 0; a submission id is the number of the submit call  *)
(* that made it, in place of the random id of the code.                    *)
(***************************************************************************)
FirstDelay == 1         \* mint.first_auction_delay_seconds, in ticks
BiddingWindow == 2      \* mint.bidding_window_seconds, in ticks
AuctionPeriod == 3      \* mint.period_seconds, in ticks
MaxIssued == 3          \* submit calls the model lets succeed

\* MintAuction.status: the phase at time t
status(t, started) ==
    IF t < FirstDelay THEN "waiting_first_auction"
    ELSE IF ~started.set THEN "waiting_bidding_window"
    ELSE IF t - started.at < BiddingWindow THEN "bidding"
    ELSE "resolving"

\* a variant of next_start that leaves the start of the auction where it was
next_start_unchanged(started, t) == started

\* MintAuction.update after a resolution: the start of the next auction
next_start(started, t) ==
    IF t - started.at >= AuctionPeriod THEN [set |-> TRUE, at |-> t]
    ELSE [set |-> TRUE, at |-> started.at + AuctionPeriod]

\* World.tick or kernel_mint "update": MintAuction.update, with the score the scorer
\* gives a winning artifact
Update(score) ==
    LET R == resolve(ledger, submissions, score)
        due == auction_started_at.set /\ now - auction_started_at.at >= BiddingWindow
    IN  /\ now >= FirstDelay /\ due /\ R.res.scrip_minted > 0 =>
               supply(ledger, submissions) + R.res.scrip_minted <= starting_supply(ledger) + MaxMinted
        /\ submissions = <<>> => score = 0
        /\ IF now < FirstDelay
           THEN /\ result' = Res("update", TRUE, "None")
                /\ UNCHANGED <<ledger, submissions, auction_started_at>>
           ELSE IF ~auction_started_at.set
           THEN /\ auction_started_at' = [set |-> TRUE, at |-> now]
                /\ result' = Res("update", TRUE, "None")
                /\ UNCHANGED <<ledger, submissions>>
           ELSE IF due
           THEN /\ ledger' = R.L
                /\ submissions' = R.subs
                /\ auction_started_at' = next_start(auction_started_at, now)
                /\ result' = [Res("update", TRUE, "resolved") EXCEPT !.mint = R.res]
           ELSE /\ result' = Res("update", TRUE, "None")
                /\ UNCHANGED <<ledger, submissions, auction_started_at>>
        /\ UNCHANGED issued
        /\ UNCHANGED <<invoke_vars, rate_vars, runner_vars, store_vars, llm_vars, charge_vars,
                     standing_vars>>

\* the result of a kernel_mint command about one submission
MintRes(op, ok, principal_id, submission_id) ==
    [Res(op, ok, "None") EXCEPT !.data = [principal_id |-> principal_id,
                                          submission_id |-> submission_id]]

\* kernel_mint "submit" of the bidder's own profile artifact: MintAuction.submit
Submit(principal_id, bid) ==
    LET why == submit_check(ledger, principal_id, TRUE, TRUE, bid)
        submission_id == issued + 1
    IN  /\ why = "ok" => issued < MaxIssued /\ Len(submissions) < MaxSubs
        /\ IF why = "ok"
           THEN /\ ledger' = deduct_scrip(ledger, principal_id, bid).L
                /\ submissions' = Append(submissions,
                                         [submission_id |-> submission_id,
                                          principal_id |-> principal_id,
                                          artifact_id |-> principal_id, bid |-> bid])
                /\ issued' = submission_id
                /\ result' = MintRes("submit", TRUE, principal_id, submission_id)
           ELSE /\ result' = MintRes("submit", FALSE, principal_id, 0)
                /\ UNCHANGED <<ledger, submissions, issued>>
        /\ UNCHANGED auction_started_at
        /\ UNCHANGED <<invoke_vars, rate_vars, runner_vars, store_vars, llm_vars, charge_vars,
                     standing_vars>>

\* the place of the submission with the id among the pending ones, 0 when there is none
RECURSIVE index_of(_, _)
index_of(subs, submission_id) ==
    IF subs = <<>> THEN 0
    ELSE IF subs[Len(subs)].submission_id = submission_id THEN Len(subs)
    ELSE index_of(SubSeq(subs, 1, Len(subs) - 1), submission_id)

\* a variant of may_cancel that lets every principal cancel
may_cancel_anyone(submission, principal_id) == TRUE

\* the test of MintAuction.cancel on the submitter
may_cancel(submission, principal_id) == submission.principal_id = principal_id

\* kernel_mint "cancel": MintAuction.cancel
CancelSubmission(principal_id, submission_id) ==
    LET i == index_of(submissions, submission_id)
        ok == i > 0 /\ may_cancel(submissions[i], principal_id)
    IN  /\ ledger' = IF ok THEN credit_scrip(ledger, principal_id, submissions[i].bid) ELSE ledger
        /\ submissions' = IF ok THEN RemoveAt(submissions, i) ELSE submissions
        /\ result' = MintRes("cancel", ok, principal_id, submission_id)
        /\ UNCHANGED clock_vars
        /\ UNCHANGED <<invoke_vars, rate_vars, runner_vars, store_vars, llm_vars, charge_vars,
                     standing_vars>>

InitMint ==
    /\ ledger = bootstrap_ledger(2)
    /\ submissions = <<>>
    /\ result = Res("init", TRUE, "None")
    /\ InvokeIdle
    /\ RateIdle
    /\ RunnerIdle
    /\ StoreIdle
    /\ LlmIdle
    /\ ChargeIdle
    /\ ClockIdle
    /\ StandingIdle

NextMint ==
    \/ \E principal_id \in StorePrincipals, bid \in Prices : Submit(principal_id, bid)
    \/ \E principal_id \in StorePrincipals, submission_id \in 1..MaxIssued :
          CancelSubmission(principal_id, submission_id)
    \/ \E score \in Scores : Update(score)
    \/ Tick

SpecMint == InitMint /\ [][NextMint]_vars

(***************************************************************************)
(* Properties of the auction clock and of cancellation.                    *)
(***************************************************************************)
phase_rank(phase) ==
    CASE phase = "waiting_first_auction" -> 0
      [] phase = "waiting_bidding_window" -> 1
      [] phase = "bidding" -> 2
      [] phase = "resolving" -> 3

\* this step is an update that resolved the auction
resolved_now == result'.op = "update" /\ result'.code = "resolved" /\ now' = now

\* C25: the phase of status() never moves backwards except from resolving to bidding
\* in the update that resolves; an update resolves only when the bidding window of
\* the current auction has passed, after it the phase is bidding, so the same
\* moment cannot resolve twice, and once an auction has started the phase is never
\* a waiting phase again.
C25_PhaseMovesForward ==
    [][LET phase == status(now, auction_started_at)
           after == status(now', auction_started_at')
       IN  /\ phase_rank(after) < phase_rank(phase)
                 => resolved_now /\ phase = "resolving" /\ after = "bidding"
           /\ resolved_now
                 => /\ auction_started_at.set
                    /\ now - auction_started_at.at >= BiddingWindow
                    /\ after = "bidding"
           /\ auction_started_at' # auction_started_at
                 => result'.op = "update" /\ auction_started_at'.set
           /\ phase_rank(phase) >= 2 => phase_rank(after) >= 2]_vars

\* an auction with a bid was resolved before its period was over: the next auction
\* starts in the future and the phase is bidding
C25_Witness ==
    /\ result.op = "update"
    /\ result.mint.winner_id # "None"
    /\ auction_started_at.at > now
    /\ status(now, auction_started_at) = "bidding"

\* the submissions left when the one with the id is taken out
RECURSIVE without(_, _)
without(subs, submission_id) ==
    IF subs = <<>> THEN <<>>
    ELSE IF Head(subs).submission_id = submission_id THEN without(Tail(subs), submission_id)
    ELSE <<Head(subs)>> \o without(Tail(subs), submission_id)

\* C26: a successful submit takes the bid from the bidder in the same step; a cancel
\* succeeds exactly when the id is that of a pending submission of the principal who
\* cancels, and then credits that bid to it and removes the submission; every other
\* cancel (another principal, an unknown id, an id cancelled before or resolved)
\* returns false and changes neither ledger nor submissions; scrip plus escrow stays
\* what was handed out plus what was minted.
C26_CancelRefundsOnce ==
    [][/\ (result'.op = "submit" /\ result'.ok /\ issued' # issued)
             => LET p == result'.data.principal_id
                    bid == submissions'[Len(submissions')].bid
                IN  /\ get_scrip(ledger', p) = get_scrip(ledger, p) - bid
                    /\ escrow(submissions') = escrow(submissions) + bid
       /\ (result'.op = "cancel" /\ now' = now)
             => LET p == result'.data.principal_id
                    id == result'.data.submission_id
                    pending == \E i \in DOMAIN submissions :
                                  /\ submissions[i].submission_id = id
                                  /\ submissions[i].principal_id = p
                    bid == escrow(submissions) - escrow(without(submissions, id))
                IN  /\ result'.ok = pending
                    /\ pending => /\ ledger' = credit_scrip(ledger, p, bid)
                                  /\ submissions' = without(submissions, id)
                    /\ ~pending => ledger' = ledger /\ submissions' = submissions
       /\ supply(ledger', submissions') - supply(ledger, submissions)
             = IF resolved_now /\ submissions # <<>> THEN result'.mint.scrip_minted ELSE 0]_vars

\* a second cancel of a submission its bidder had cancelled, the bid back once
C26_Witness ==
    /\ result.op = "cancel"
    /\ ~result.ok
    /\ result.data.submission_id = 1
    /\ result.data.principal_id = "alpha_1"
    /\ issued = 1
    /\ submissions = <<>>
    /\ ~auction_started_at.set
    /\ ledger = bootstrap_ledger(2)

(***************************************************************************)
(* Writes with standing flags and contract state: _write as a whole, with  *)
(* the state_updates its permission check merges, the has_standing and     *)
(* has_loop of the intent, and the ledger account of a new artifact.       *)
(***************************************************************************)
\* dict.update: the keys of updates replace or extend those of state
merge(state, updates) ==
    [k \in DOMAIN state \cup DOMAIN updates |->
        IF k \in DOMAIN updates THEN updates[k] ELSE state[k]]

\* Ledger.create_principal: setdefault of the balance
create_principal(L, pid, starting_scrip) ==
    IF pid \in DOMAIN L.scrip THEN L
    ELSE [order |-> Append(L.order, pid), scrip |-> L.scrip @@ (pid :> starting_scrip)]

\* ArtifactStore.write on an existing artifact: a flag stays once it is set
flags_updated(old, has_standing, has_loop) ==
    [has_standing |-> has_standing \/ old.has_standing,
     has_loop |-> has_loop \/ old.has_loop]

\* ActionExecutor._write: ContractEngine.check merges the state_updates of a
\* contract artifact's result into auth_state, allowed or not, before the
\* handler looks at the result; the intent takes has_loop for has_standing as
\* well; a ledger account is created for an artifact that is new and has
\* standing
WriteStanding(p, intent, verdict, state_updates, has_standing, has_loop) ==
    LET aid == intent.artifact_id
        exists == aid \in DOMAIN artifacts
        reached == exists /\ ~artifacts[aid].deleted /\ ~artifacts[aid].kernel_protected
        custom == reached /\ resolve_contract(artifacts, artifacts[aid].access_contract_id) = "custom"
        updates == IF custom /\ verdict \in {"allow", "deny"} THEN state_updates ELSE NoUpdates
        merged == IF DOMAIN updates # {}
                  THEN [artifacts EXCEPT ![aid].auth_state = merge(@, updates)]
                  ELSE artifacts
        standing == has_standing \/ has_loop
        f == IF exists THEN flags_updated(flags[aid], standing, has_loop)
             ELSE [has_standing |-> standing \/ has_loop, has_loop |-> has_loop]
    IN  /\ \E W \in {write_action(merged, p, intent, verdict)} :
              /\ artifacts' = W.artifacts
              /\ result' = W.result
              /\ flags' = IF ~W.result.ok THEN flags
                          ELSE IF exists THEN [flags EXCEPT ![aid] = f]
                          ELSE flags @@ (aid :> f)
              /\ ledger' = IF W.result.ok /\ ~exists /\ f.has_standing
                              /\ ~principal_exists(ledger, aid)
                           THEN create_principal(ledger, aid, 0)
                           ELSE ledger
        /\ checked' = [target |-> IF reached THEN aid ELSE "None", state_updates |-> updates]
        /\ UNCHANGED can_mint
        /\ UNCHANGED <<submissions, invoke_vars, rate_vars, runner_vars, llm_vars,
                       charge_vars, clock_vars>>

\* the state_updates a contract artifact returns: none, a new writer, a new principal
StateUpdates == {NoUpdates, "writer" :> "alpha_2", "principal" :> "alpha_2"}

\* only the code of a contract artifact returns state_updates
updates_of(A, aid) ==
    IF aid \in DOMAIN A /\ resolve_contract(A, A[aid].access_contract_id) = "custom"
    THEN StateUpdates ELSE {NoUpdates}

\* <<principal, intent>>: a contract artifact, a document under it or under
\* the default contract
StandingWrites ==
    {<<"alpha_1", code_intent("gate", "def check_permission(")>>}
    \cup
    {<<p, text_intent("doc", <<"a">>, 0, acid)>> :
        p \in StorePrincipals, acid \in {"None", "gate"}}

\* <<has_standing, has_loop>> of an intent
StandingFlags == {<<FALSE, FALSE>>, <<TRUE, FALSE>>, <<FALSE, TRUE>>}

NextStanding ==
    \/ \E w \in StandingWrites, fl \in StandingFlags :
          \E v \in verdicts_of(artifacts, w[2].artifact_id),
             u \in updates_of(artifacts, w[2].artifact_id) :
             WriteStanding(w[1], w[2], v, u, fl[1], fl[2])
    \/ \E p \in StorePrincipals :
          \E v \in verdicts_of(artifacts, "doc") \cap {"allow", "deny"} :
             EditArtifact(p, "doc", <<"a">>, <<"eacute">>, v)
    \/ \E p \in StorePrincipals :
          \E v \in verdicts_of(artifacts, "doc") \cap {"allow", "deny"} :
             UpdateMetadata(p, "doc", "tag", "x", v)

SpecStanding == InitStore /\ [][NextStanding]_vars

\* C29: after its creation an artifact's auth_state changes only by the merge
\* of the state_updates of a permission check: a step leaves every
\* artifact's auth_state as it was, but for the target of the step's check,
\* whose auth_state is the old one with the state_updates of the check merged
\* in; so no write, edit or update_metadata writes a key of its own, and a
\* writer set by a contract is still there after a later write
C29_AuthStateOnlyMerged ==
    [][\A aid \in DOMAIN artifacts :
          /\ aid \in DOMAIN artifacts'
          /\ artifacts'[aid].auth_state =
                IF result'.op = "write_artifact" /\ checked'.target = aid
                THEN merge(artifacts[aid].auth_state, checked'.state_updates)
                ELSE artifacts[aid].auth_state]_vars

\* C30: every artifact with has_standing has a ledger account, and an
\* artifact with has_loop has has_standing, whether the flag was set at its
\* creation or by a later write
C30_StandingHasAccount ==
    \A aid \in DOMAIN flags :
        /\ flags[aid].has_standing => principal_exists(ledger, aid)
        /\ flags[aid].has_loop => flags[aid].has_standing

(***************************************************************************)
(* The wait for capacity (world/rates.py): time_until_capacity over the    *)
(* bucket that consume and refund leave.                                   *)
(***************************************************************************)
\* the loop of time_until_capacity: the first record at which the running sum covers
\* need_to_expire, the last record when none does
RECURSIVE expiring_record(_, _, _)
expiring_record(b, acc, need_to_expire) ==
    IF Len(b) = 1 \/ acc + Head(b).amount >= need_to_expire THEN Head(b)
    ELSE expiring_record(Tail(b), acc + Head(b).amount, need_to_expire)

\* RateTracker.time_until_capacity of the bucket b at time t
time_until_capacity(b, t, amount) ==
    IF amount <= 0 THEN 0
    ELSE IF has_capacity(b, t, amount) THEN 0
    ELSE LET pruned == prune(b, t)
             need_to_expire == sum_amounts(pruned) - (RateLimit - amount)
         IN  IF pruned = <<>> THEN 0
             ELSE IF need_to_expire <= 0 THEN 0
             ELSE Max(0, (expiring_record(pruned, 0, need_to_expire).timestamp
                            + WindowTicks) - t)

\* time_until_capacity called on its own: has_capacity prunes the bucket
TimeUntilCapacity(amount) ==
    /\ bucket' = IF amount <= 0 THEN bucket ELSE prune(bucket, now)
    /\ rate_result' = [op |-> "time_until_capacity", amount |-> amount, ok |-> TRUE,
                       wait |-> time_until_capacity(bucket, now, amount)]
    /\ UNCHANGED now
    /\ UNCHANGED not_rate

\* the amounts asked for: none, within the limit, the limit, above the limit
WaitAmounts == {0, 1, RateLimit, RateLimit + 1}

NextWait ==
    \/ \E amount \in {1, 2} : Consume(amount)
    \/ Refund(1)
    \/ \E amount \in WaitAmounts : TimeUntilCapacity(amount)
    \/ Tick

SpecWait == InitRate /\ [][NextWait]_vars

\* the bucket b as any moment later than t finds it: the records whose window has
\* ended at t are gone
RECURSIVE prune_after(_, _)
prune_after(b, t) ==
    IF b # <<>> /\ Head(b).timestamp <= t - WindowTicks THEN prune_after(Tail(b), t) ELSE b

\* has_capacity just after t
has_capacity_after(b, t, amount) ==
    amount >= 0 /\ Max(0, RateLimit - Max(0, sum_amounts(prune_after(b, t)))) >= amount

\* C31: time_until_capacity returns 0 exactly when has_capacity holds, and otherwise
\* a wait after which, with no consumption in between, has_capacity holds, for every
\* amount, one above the limit included, and for buckets that hold refunds
C31_WaitGivesCapacity ==
    [][rate_result'.op = "time_until_capacity" /\ now' = now
          => LET amount == rate_result'.amount
                 w == time_until_capacity(bucket, now, amount)
             IN  /\ (w = 0) <=> has_capacity(bucket, now, amount)
                 /\ w > 0 => has_capacity_after(bucket', now + w, amount)]_vars

(***************************************************************************)
(* The auction over the artifact store (world/mint.py): a submission names *)
(* an artifact of the store, which its owner may delete before the         *)
(* resolution looks it up.                                                 *)
(***************************************************************************)
\* ActionExecutor._submit_to_mint -> MintAuction.submit of the artifact aid
SubmitArtifact(p, aid, bid) ==
    LET found == aid \in DOMAIN artifacts /\ ~artifacts[aid].deleted
        authorized == found /\ p \in {artifacts[aid].owner, artifacts[aid].auth_state.writer,
                                      artifacts[aid].auth_state.principal}
        why == submit_check(ledger, p, found, authorized, bid)
    IN  /\ why = "ok" => Len(submissions) < MaxSubs
        /\ ledger' = IF why = "ok" THEN deduct_scrip(ledger, p, bid).L ELSE ledger
        /\ submissions' = IF why = "ok"
                          THEN Append(submissions,
                                      [principal_id |-> p, artifact_id |-> aid, bid |-> bid])
                          ELSE submissions
        /\ result' = IF why = "ok" THEN Res("submit_to_mint", TRUE, "None")
                     ELSE [Res("submit_to_mint", FALSE, "invalid_submission")
                              EXCEPT !.message = why]
        /\ UNCHANGED not_economy

\* self.artifacts.get(winner.artifact_id) is not None
lookup(A, aid) == aid \in DOMAIN A

\* MintAuction.resolve with its lookup of the winner's artifact: the scorer is
\* called, and what it scores minted, only when the store holds the artifact
resolve_stored(A, L, subs, score) ==
    LET held == subs # <<>> /\ lookup(A, sort_desc(subs)[1].artifact_id)
        R == resolve(L, subs, IF held THEN score ELSE 0)
    IN  [res |-> IF subs # <<>> /\ ~held
                 THEN [R.res EXCEPT !.error = "winner artifact disappeared"]
                 ELSE R.res,
         L |-> R.L, subs |-> R.subs, scored |-> held]

\* MintAuction.update -> resolve over the store
ResolveStored(score) ==
    LET R == resolve_stored(artifacts, ledger, submissions, score)
    IN  /\ R.res.scrip_minted > 0 =>
               supply(ledger, submissions) + R.res.scrip_minted
                   <= starting_supply(ledger) + MaxMinted
        /\ submissions = <<>> => score = 0
        /\ ledger' = R.L
        /\ submissions' = R.subs
        /\ result' = [Res("resolve", TRUE, R.res.error) EXCEPT
                         !.mint = R.res, !.data = [scored |-> R.scored]]
        /\ UNCHANGED not_economy

\* ActionExecutor._delete of a profile by its owner, a transfer between the
\* principals, bids on the profiles and resolutions
NextVanish ==
    \/ \E p \in StorePrincipals, aid \in StorePrincipals, bid \in {1, 2} :
          SubmitArtifact(p, aid, bid)
    \/ \E p \in StorePrincipals : DeleteArtifact(p, p, "allow")
    \/ \E p \in StorePrincipals : \E r \in StorePrincipals \ {p} : Transfer(p, r, 1)
    \/ \E score \in Scores : ResolveStored(score)

SpecVanish == InitStore /\ [][NextVanish]_vars

\* the artifact of the highest bid is not in the store, or is deleted
winner_vanished ==
    /\ submissions # <<>>
    /\ LET aid == sort_desc(submissions)[1].artifact_id
       IN  aid \notin DOMAIN artifacts \/ artifacts[aid].deleted

\* C32: a resolution whose winning artifact was deleted after its submission does
\* not raise, settles every bid, and returns a result with error set, no score and
\* scrip_minted 0, the winner being credited nothing but the refund down to the
\* second price; a resolution without submissions returns 'no submissions' and
\* changes no balance
C32_VanishedWinnerRecorded ==
    [][result'.op = "resolve" /\ artifacts' = artifacts
          => /\ result'.raised = "None"
             /\ submissions = <<>>
                   => result'.mint.error = "no submissions" /\ ledger' = ledger
             /\ winner_vanished
                   => /\ submissions' = <<>>
                      /\ result'.mint.error # "None"
                      /\ ~result'.data.scored
                      /\ result'.mint.scrip_minted = 0
                      /\ ledger' = resolve(ledger, submissions, 0).L]_vars

(***************************************************************************)
(* The supply of scrip: the balances and the escrowed bids together.       *)
(***************************************************************************)
\* what a step adds to the sum of all balances and escrowed bids
supply_delta == supply(ledger', submissions') - supply(ledger, submissions)

\* C33 as written: transfer, read and invoke price payments, pay(), submit_to_mint
\* and cancel leave the sum of all balances and escrowed bids unchanged, a mint
\* raises it by its amount and every resolution raises it by exactly scrip_minted.
\* A winner that is the only principal refutes it: its price is credited to nobody.
C33_AsWritten ==
    [][CASE result'.op = "mint" /\ result'.ok ->
               supply_delta \in {n \in Minted : n > 0}
         [] result'.op = "resolve" ->
               supply_delta = result'.mint.scrip_minted
         [] OTHER -> supply_delta = 0]_vars

\* C33: transfer, read and invoke price payments, pay(), submit_to_mint and cancel
\* leave the sum of all balances and escrowed bids unchanged; a mint raises it by its
\* amount; a resolution raises it by scrip_minted when a principal other than the
\* winner takes the UBI, and by scrip_minted less price_paid when there is none
C33_SupplyConserved ==
    [][CASE result'.op = "mint" /\ result'.ok ->
               supply_delta \in {n \in Minted : n > 0}
         [] result'.op = "resolve" ->
               LET r == result'.mint
                   lost == IF r.winner_id # "None" /\ eligible(ledger, r.winner_id) = {}
                           THEN r.price_paid ELSE 0
               IN  supply_delta = r.scrip_minted - lost
         [] OTHER -> supply_delta = 0]_vars

\* a resolution has minted to its winner and paid the price out as UBI
C33_Witness ==
    /\ result.op = "resolve"
    /\ result.mint.scrip_minted > 0
    /\ SumFn(result.mint.ubi_distributed) = result.mint.price_paid
    /\ result.mint.price_paid > 0

(***************************************************************************)
(* The capability to mint (world/action_executor.py): _mint reads the      *)
(* capabilities of the artifact that bears the minter's id, and _write     *)
(* passes the capabilities of its intent on to the store.                  *)
(***************************************************************************)
\* ArtifactStore.write on an existing artifact: list(capabilities or
\* existing.capabilities); old, new: "can_mint" is in the list
capabilities_updated(old, new) == IF new # {} THEN new ELSE old

\* the capabilities lists of a write_artifact payload: none given, can_mint, another
CapabilityLists == {{}, {"can_mint"}, {"can_call_llm"}}

\* ActionExecutor._write with the capabilities of the intent
WriteCapabilities(p, intent, verdict, capabilities) ==
    LET aid == intent.artifact_id
        exists == aid \in DOMAIN artifacts
        old == IF aid \in can_mint THEN {"can_mint"} ELSE {}
        new == IF exists THEN capabilities_updated(old, capabilities) ELSE capabilities
    IN  /\ \E W \in {write_action(artifacts, p, intent, verdict)} :
              /\ artifacts' = W.artifacts
              /\ result' = W.result
              /\ can_mint' = IF ~W.result.ok THEN can_mint
                             ELSE IF "can_mint" \in new THEN can_mint \cup {aid}
                             ELSE can_mint \ {aid}
        /\ UNCHANGED <<ledger, flags, checked>>
        /\ UNCHANGED <<submissions, invoke_vars, rate_vars, runner_vars, llm_vars,
                       charge_vars, clock_vars>>

\* ActionExecutor._mint by the principal p: the minter is the artifact of its id
Mint(p, r, n) ==
    MintAction(p \in DOMAIN artifacts, p \in DOMAIN artifacts /\ p \in can_mint, r, n)

\* <<principal, intent>>: each principal writes its own profile, the other's, a document
CapabilityWrites ==
    {<<p, text_intent(aid, <<"a">>, 0, "None")>> :
        p \in StorePrincipals, aid \in StorePrincipals \cup {"doc"}}

NextCapability ==
    \/ \E w \in CapabilityWrites, capabilities \in CapabilityLists :
          WriteCapabilities(w[1], w[2], "allow", capabilities)
    \/ \E p \in StorePrincipals, r \in StorePrincipals, n \in Minted : Mint(p, r, n)
    \/ \E p \in StorePrincipals : \E r \in StorePrincipals \ {p} : Transfer(p, r, 1)

SpecCapability == InitStore /\ [][NextCapability]_vars

\* C34: no principal can give itself the power to mint: the bootstrap puts can_mint
\* in no capabilities list, and after whatever the principals write, to their own
\* profile artifacts as well, no mint action succeeds
C34_NoSelfGrantedMint ==
    [][result'.op = "mint" /\ can_mint' = can_mint /\ artifacts' = artifacts
          => ~result'.ok]_vars

(***************************************************************************)
(* Disk usage against the quota: writes, edits and deletions of a          *)
(* document and the subscriptions kept in the profile artifacts            *)
(* (world/action_executor.py, world/artifacts.py, world/world.py).         *)
(***************************************************************************)
\* json.loads of a profile text followed by config.get("subscribed_artifacts", []):
\* the list of a text that holds a JSON object, the empty list of any other
\* text.  A JSON text is "{" followed by the ids of the list, each id one byte
subscribed_of(content) ==
    IF content # <<>> /\ Head(content) = "{" THEN Tail(content) ELSE <<>>

\* json.dumps of the config with the list stored in it
dumps(subscribed) == <<"{">> \o subscribed

\* list.remove: the first occurrence leaves the list
RECURSIVE remove(_, _)
remove(s, x) ==
    IF s = <<>> THEN <<>>
    ELSE IF Head(s) = x THEN Tail(s) ELSE <<Head(s)>> \o remove(Tail(s), x)

\* ActionExecutor._update_subscription
UpdateSubscription(principal_id, artifact_id, subscribe) ==
    LET subscribed == subscribed_of(artifacts[principal_id].content)
        listed == \E i \in DOMAIN subscribed : subscribed[i] = artifact_id
        updated ==
            IF subscribe THEN (IF listed THEN subscribed ELSE Append(subscribed, artifact_id))
            ELSE (IF listed THEN remove(subscribed, artifact_id) ELSE subscribed)
        op == IF subscribe THEN "subscribe_artifact" ELSE "unsubscribe_artifact"
    IN  /\ IF principal_id \notin DOMAIN artifacts
           THEN result' = Res(op, FALSE, "not_found") /\ UNCHANGED artifacts
           ELSE IF subscribe /\ artifact_id \notin DOMAIN artifacts
           THEN result' = Res(op, FALSE, "not_found") /\ UNCHANGED artifacts
           ELSE /\ artifacts' = [artifacts EXCEPT ![principal_id].content = dumps(updated)]
                /\ result' = [Res(op, TRUE, "None") EXCEPT
                                !.data = [subscribed_artifacts |-> updated]]
        /\ UNCHANGED ledger
        /\ UNCHANGED not_store

\* <<principal, intent>>: a document of one, MaxLen or MaxLen + 2 bytes, under the
\* default contract or the public one
QuotaWrites ==
    {<<p, text_intent("doc", c, 0, acid)>> :
        p \in StorePrincipals, c \in DocContents, acid \in {"None", KERNEL_CONTRACT_PUBLIC}}

\* the artifacts a principal subscribes to
SubscribeIds == {"doc", "kernel_mint", "ghost"}

NextQuota ==
    \/ \E w \in QuotaWrites : WriteArtifact(w[1], w[2], "allow")
    \/ \E p \in StorePrincipals : EditArtifact(p, "doc", <<"a">>, <<"eacute">>, "allow")
    \/ \E p \in StorePrincipals : DeleteArtifact(p, "doc", "allow")
    \/ \E p \in StorePrincipals, aid \in SubscribeIds, subscribe \in BOOLEAN :
          UpdateSubscription(p, aid, subscribe)

SpecQuota == InitStore /\ [][NextQuota]_vars

\* C35: in every reachable state the bytes of the live artifacts a principal
\* owns stay within its disk quota, whatever writes, edits, subscriptions and
\* deletions the principals perform
C35_UsageWithinQuota ==
    \A p \in StorePrincipals : get_owner_usage(artifacts, p) <= get_disk_quota(p)

(***************************************************************************)
(* Nested priced invokes (world/action_executor.py _invoke,                *)
(* world/executor.py invoke, world/world.py invoke_from_executor): the     *)
(* code of the priced artifact calls invoke on the artifact again, as the  *)
(* same caller, before its own invoke has paid and recorded its charge.    *)
(***************************************************************************)
MaxNest == 2            \* the deepest nesting the code of the artifact asks for
MaxNestCharges == 3     \* charge records the model lets a pair's history hold

\* ActionExecutor._invoke of run on the priced artifact by caller_id at time t, the
\* contract allowing it and the execution succeeding: the code invokes the artifact
\* again while nests > 0 and returns whatever the inner invoke returned to it
RECURSIVE invoke_nested(_, _, _, _, _)
invoke_nested(H, L, caller_id, nests, t) ==
    LET payer == resolve_payer(priced.charge_to, caller_id, priced)
        price == priced.invoke_price
        V == IF payer # caller_id
             THEN authorize_charge(entries, H, payer, caller_id, price, t)
             ELSE [ok |-> TRUE, reason |-> "ok", raised |-> "None", H |-> H]
        inner == IF nests > 0 THEN invoke_nested(V.H, L, caller_id, nests - 1, t)
                 ELSE [ok |-> TRUE, code |-> "None", raised |-> "None", H |-> V.H, L |-> L]
        recipient == priced.owner
        paid == IF price > 0 /\ recipient # payer
                THEN transfer_scrip(inner.L, payer, recipient, price).L
                ELSE inner.L
        recorded == IF payer # caller_id /\ price > 0
                    THEN record_charge(inner.H, payer, caller_id, price, t)
                    ELSE inner.H
        refused(code, raised) ==
            [ok |-> FALSE, code |-> code, raised |-> raised, H |-> V.H, L |-> L]
    IN  IF V.raised # "None" THEN refused("None", V.raised)
        ELSE IF ~V.ok THEN refused("not_authorized", "None")
        ELSE IF price > 0 /\ ~can_afford_scrip(L, payer, price)
        THEN refused("insufficient_funds", "None")
        ELSE [ok |-> TRUE, code |-> "None", raised |-> "None", H |-> recorded, L |-> paid]

InvokeNested(caller_id, nests) ==
    /\ \E I \in {invoke_nested(history, ledger, caller_id, nests, now)} :
          /\ Len(I.H["alpha_1"]["alpha_2"]) <= MaxNestCharges
          /\ history' = I.H
          /\ ledger' = I.L
          /\ result' = [InvokeRes(caller_id, I.ok, I.code,
                                  IF I.ok THEN priced.invoke_price ELSE 0,
                                  IF I.ok THEN resolve_payer(priced.charge_to, caller_id, priced)
                                  ELSE "None")
                          EXCEPT !.raised = I.raised]
    /\ UNCHANGED <<submissions, priced, entries, charge_result>>
    /\ UNCHANGED <<invoke_vars, rate_vars, runner_vars, store_vars, llm_vars, clock_vars,
                   standing_vars>>

\* the grants of alpha_1 to alpha_2 that cap the window
WindowGrants == {DelegationEntry(c, Cap(2), NoExpiry) : c \in {NoCap, Cap(1)}}

NextNested ==
    \/ \E entry \in WindowGrants : Grant("alpha_1", "alpha_2", entry)
    \/ \E charge_to \in ChargeTos : SetChargeTo(charge_to)
    \/ \E caller_id \in Callers, nests \in 0..MaxNest : InvokeNested(caller_id, nests)
    \/ ChargeTick

SpecNested == InitCharge /\ [][NextNested]_vars

\* the amounts of the records of b whose timestamp lies in [t, t + WindowTicks)
RECURSIVE charged_within(_, _)
charged_within(b, t) ==
    IF b = <<>> THEN 0
    ELSE (IF t <= Head(b).timestamp /\ Head(b).timestamp < t + WindowTicks
          THEN Head(b).amount ELSE 0) + charged_within(Tail(b), t)

\* C36: for every delegation with max_per_window set, the charges recorded for
\* its pair within any interval of the window's length never sum to more than
\* max_per_window, also when the invokes of the charger nest
C36_WindowCapHolds ==
    \A payer \in PrincipalIds, charger \in PrincipalIds :
       LET entry == entries[payer][charger]
       IN  (entry.exists /\ entry.max_per_window.set) =>
              \A t \in 0..ChargeHorizon :
                 charged_within(history[payer][charger], t) <= entry.max_per_window.v

(***************************************************************************)
(* The rate limit over an interval.  _prune drops a record only when it is *)
(* older than the window, so at every moment the bucket holds every record *)
(* of the window that ends then: an admitted consume as a positive amount, *)
(* a refund as a negative one.                                             *)
(***************************************************************************)
\* what consume admitted less what refund gave back in the interval (t - WindowTicks, t]
RECURSIVE net_within(_, _)
net_within(b, t) ==
    IF b = <<>> THEN 0
    ELSE (IF t - WindowTicks < Head(b).timestamp /\ Head(b).timestamp <= t
          THEN Head(b).amount ELSE 0) + net_within(Tail(b), t)

\* C37: for every principal and rate-limited resource, over any interval of the
\* window's length the amounts admitted by consume less the amounts refunded in
\* that interval never exceed the limit
C37_NetWithinLimit ==
    \A r \in {"llm_calls", "llm_tokens"}, payer \in Payers :
       net_within(usage[r][payer], now) <= RateLimit

(***************************************************************************)
(* Who receives the content of an artifact: read_artifact, the method      *)
(* "describe" of invoke_artifact and the query "artifact" of query_kernel  *)
(* (world/action_executor.py, world/queries.py), over documents and        *)
(* executables under the private and the public kernel contract.           *)
(***************************************************************************)
\* the result of an action that names the artifact and carries a text of it
Carries(op, ok, code, aid, text) ==
    [Res(op, ok, code) EXCEPT !.data = [artifact_id |-> aid, content |-> text]]

\* ActionExecutor._invoke with the method "describe"; no kernel service has it
Describe(p, aid) ==
    /\ result' =
         IF aid \in kernel_services THEN Carries("describe", FALSE, "not_found", aid, "None")
         ELSE IF missing(artifacts, aid) THEN Carries("describe", FALSE, "not_found", aid, "None")
         ELSE IF ~artifacts[aid].executable
         THEN Carries("describe", FALSE, "invalid_type", aid, "None")
         ELSE Carries("describe", TRUE, "None", aid, artifacts[aid].content)
    /\ UNCHANGED <<artifacts, ledger>>
    /\ UNCHANGED not_store

\* ActionExecutor._query with KernelQueryHandler._query_artifact
QueryArtifact(p, aid) ==
    /\ result' =
         IF aid \notin DOMAIN artifacts
         THEN Carries("query_kernel", FALSE, "not_found", aid, "None")
         ELSE Carries("query_kernel", TRUE, "None", aid, artifacts[aid].content)
    /\ UNCHANGED <<artifacts, ledger>>
    /\ UNCHANGED not_store

\* <<principal, intent>>: a document and an executable of alpha_1, private or public,
\* free or priced
SecretWrites ==
    {<<"alpha_1", text_intent("doc", <<"a", "a">>, price, acid)>> :
        price \in 0..1, acid \in {KERNEL_CONTRACT_PRIVATE, KERNEL_CONTRACT_PUBLIC}}
    \cup
    {<<"alpha_1", [text_intent("gate", <<"a", "a">>, price, acid)
                     EXCEPT !.executable = TRUE, !.code = "def run("]>> :
        price \in 0..1, acid \in {KERNEL_CONTRACT_PRIVATE, KERNEL_CONTRACT_PUBLIC}}

SecretIds == {"doc", "gate", "kernel_mint"}

NextSecret ==
    \/ \E w \in SecretWrites : WriteArtifact(w[1], w[2], "allow")
    \/ \E p \in StorePrincipals, aid \in SecretIds : ReadArtifact(p, aid, "allow")
    \/ \E p \in StorePrincipals, aid \in SecretIds : Describe(p, aid)
    \/ \E p \in StorePrincipals, aid \in {"doc", "gate", "ghost"} : QueryArtifact(p, aid)
    \/ \E p \in StorePrincipals : DeleteArtifact(p, "doc", "allow")

SpecSecret == InitStore /\ [][NextSecret]_vars

\* C38: a principal the contract does not allow to read an artifact never receives
\* its content in an action result, and the content of a priced artifact is
\* received only through a read_artifact that charged read_price: describe and
\* query_kernel hand content only to a principal allowed to read, and only of an
\* artifact without a read price
C38_ContentOnlyByRead ==
    [][result'.op \in {"describe", "query_kernel"} =>
         \A p \in StorePrincipals, aid \in SecretIds \cup {"ghost"} :
            ((Describe(p, aid) \/ QueryArtifact(p, aid)) /\ result'.ok)
            => /\ check(artifacts, p, "read", aid, "allow") = "allow"
               /\ artifacts[aid].read_price = 0]_vars

(***************************************************************************)
(* The runner once run() has returned (simulation/runner.py).              *)
(***************************************************************************)
\* C39: when run() has returned, is_running is false, every loop task has
\* finished and the runtime state of every loop has running false, whether the
\* run ended by stop(), by the duration or by the runtime limit
C39_ReturnedAllStopped ==
    pc["run"] = "returned" =>
        /\ ~running
        /\ \A t \in Loops : ended(pc[t]) /\ ~loop_running[t]

(***************************************************************************)
(* The limits of a run (simulation/runner.py): run() with a positive       *)
(* duration or a positive max_runtime_seconds of RunLimit ticks, started   *)
(* when the monotonic clock reads 0, paused and resumed by other callbacks *)
(* and never stopped.                                                      *)
(***************************************************************************)
RunLimit == 2           \* the duration, or max_runtime_seconds, in ticks
RunHorizon == 3         \* the monotonic clock of the run stops here

\* SimulationRunner.elapsed_seconds of a run whose _start_monotonic is 0
elapsed_seconds == now

\* time.monotonic() advances while the run lasts
Elapse ==
    /\ running
    /\ now < RunHorizon
    /\ Tick

\* the two tests of the tick loop, for a run with the limit kind set to RunLimit
TickCheckTimed ==
    \E kind \in {"max_runtime", "duration"} :
       TickCheck(IF elapsed_seconds >= RunLimit THEN kind ELSE "None")

\* asyncio.sleep(1.0) of the tick loop returns: a second has passed since the tick
TickTimer ==
    /\ cur = "None"
    /\ pc["run"] = "sleep"
    /\ ticks <= elapsed_seconds
    /\ pc' = [pc EXCEPT !["run"] = "ready"]
    /\ UNCHANGED <<running, paused, stop_requested, pause_event, cur, iterations,
                   consecutive_errors, ticks, log, frozen_agents, loop_running>>
    /\ UNCHANGED not_runner

\* the steps of the run() coroutine
RunStep ==
    \/ TickResume
    \/ TickWoken
    \/ TickCheckTimed
    \/ \E resolved \in BOOLEAN : TickEnd(resolved)
    \/ Finally
    \/ Gathered

NextLimit ==
    \/ RunStart
    \/ pause
    \/ resume
    \/ \E t \in Loops, a, b \in BOOLEAN : LoopResume(t, a, b)
    \/ \E t \in Loops, a, b \in BOOLEAN : LoopWoken(t, a, b)
    \/ \E t \in Loops : LoopExec(t)
    \/ \E t \in Loops, success \in BOOLEAN : LoopEnd(t, success)
    \/ \E t \in Loops : LoopCancelled(t)
    \/ \E t \in Loops : Timer(t)
    \/ TickTimer
    \/ TickResume
    \/ TickWoken
    \/ TickCheckTimed
    \/ \E resolved \in BOOLEAN : TickEnd(resolved)
    \/ Finally
    \/ Gathered
    \/ Elapse

\* the event loop runs every scheduled task, every timer comes due and time passes;
\* nothing obliges anybody to call pause() or resume()
SpecLimit ==
    /\ InitRunner
    /\ [][NextLimit]_vars
    /\ \A t \in Loops : WF_vars(TaskStep(t)) /\ WF_vars(Timer(t))
    /\ WF_vars(RunStep)
    /\ WF_vars(TickTimer)
    /\ WF_vars(Elapse)

\* C40: a run with a positive limit returns once that much time has elapsed
\* without stop() being called, paused or not
C40_LimitReturns ==
    (running /\ elapsed_seconds >= RunLimit) ~> pc["run"] = "returned"

====
